---------------------------- MODULE Spec2Model ----------------------------
(***************************************************************************)
(* Model of the crawl stage of get_url_seo_geo.py: the two channel URL     *)
(* resolvers, the per-URL fetch retry controller fetch_with_firecrawl, the *)
(* artifact files it writes and the orchestrator run_crawling.             *)
(*                                                                         *)
(* Text is modelled as sequences of one-character strings, so that the     *)
(* regular expressions, the slug substitution and the substring tests of   *)
(* the source are computed, not assumed.  Wall-clock values (time,         *)
(* elapsed_s) and the search_url column are left out of the log rows.      *)
(***************************************************************************)
EXTENDS Integers, Sequences, FiniteSets, TLC

(***************************************************************************)
(* Program constants (get_url_seo_geo.py, lines 36-47 and 104).            *)
(***************************************************************************)
MAX_LISTINGS_PER_QUERY == 10
MAX_RETRIES == 3
RETRY_DELAY == 3
TIMEOUT == 300000
SLUG_MAX_LEN == 80
QUERY_MAX_LEN == 50
SEO_BASE_DIR == "outputs_etsy_final"
GEO_BASE_DIR == "outputs_GEO_final"

(***************************************************************************)
(* Bounds of the model.                                                    *)
(***************************************************************************)
\* longest prompt list read from the spreadsheet
MaxPrompts == 2
\* failures the environment injects in one run (exceptions, soft blocks)
MaxFaults == 3
\* discovery responses of one run that exceed the listing cap
MaxLong == 1
\* the base timeouts tried next to TIMEOUT: 1..MaxSmallTimeout
MaxSmallTimeout == 4

Min(a, b) == IF a < b THEN a ELSE b

(***************************************************************************)
(* Character classes of the regular expressions.                           *)
(***************************************************************************)
LowerCase == {"a","b","c","d","e","f","g","h","i","j","k","l","m","n","o","p","q","r","s","t","u","v","w","x","y","z"}
UpperCase == {"A","B","C","D","E","F","G","H","I","J","K","L","M","N","O","P","Q","R","S","T","U","V","W","X","Y","Z"}
Digits == {"0","1","2","3","4","5","6","7","8","9"}
\* [a-zA-Z0-9_-]
SlugChars == LowerCase \cup UpperCase \cup Digits \cup {"_", "-"}
\* Characters outside ASCII are written by their code point.  Of the range
\* \u4e00-\u9fa5 the model holds the two ends and one character between them.
CJK == {"U+4E00", "U+4E2D", "U+9FA5"}
\* [a-zA-Z0-9_()\uff08\uff09\u4e00-\u9fa5-]
QueryChars == SlugChars \cup {"(", ")", "U+FF08", "U+FF09"} \cup CJK

\* s[:n]
Take(s, n) == SubSeq(s, 1, Min(n, Len(s)))

\* mutant: the filler is a character outside the allowed set
ReSub_filler(s, allowed) == [i \in 1..Len(s) |-> IF s[i] \in allowed THEN s[i] ELSE "?"]

\* re.sub(r"[^<allowed>]", "_", s)
ReSub(s, allowed) == [i \in 1..Len(s) |-> IF s[i] \in allowed THEN s[i] ELSE "_"]

safe_query_name(prompt) == ReSub(Take(prompt, QUERY_MAX_LEN), QueryChars)

safe_slug(url, max_len) == ReSub(Take(url, max_len), SlugChars)

safe_slug_from_url(url) == safe_slug(url, SLUG_MAX_LEN)

\* sub in s
Contains(sub, s) == \E i \in 0..(Len(s) - Len(sub)) : SubSeq(s, i + 1, i + Len(sub)) = sub

StartsWithAt(s, i, pre) == i + Len(pre) - 1 <= Len(s) /\ SubSeq(s, i, i + Len(pre) - 1) = pre

(***************************************************************************)
(* Texts of the modelled inputs.  The state holds a text by its number in  *)
(* a table (UrlText, PromptText); every function of the source is computed *)
(* on the text.                                                            *)
(***************************************************************************)
EtsyListingPrefix == <<"h","t","t","p","s",":","/","/","w","w","w",".","e","t","s","y",".","c","o","m","/","l","i","s","t","i","n","g","/">>
HttpsScheme == <<"h","t","t","p","s",":","/","/">>
HttpScheme == <<"h","t","t","p",":","/","/">>
EtsyCom == <<"e","t","s","y",".","c","o","m">>
ListingSeg == <<"/","l","i","s","t","i","n","g","/">>

DigitText == <<"0","1","2","3","4","5","6","7","8","9">>
NumText(n) == IF n < 10 THEN <<DigitText[n + 1]>> ELSE <<DigitText[(n \div 10) + 1], DigitText[(n % 10) + 1]>>

\* https://www.etsy.com/listing/<n>/a
ListingUrl(n) == EtsyListingPrefix \o NumText(n) \o <<"/", "a">>
\* the listing URLs 1..NumListings, then the other tokens
NumListings == MAX_LISTINGS_PER_QUERY + 2
ShopTok == NumListings + 1
HttpTok == NumListings + 2
OtherTok == NumListings + 3
BareTok == NumListings + 4
WordTok == NumListings + 5
BracketTok == NumListings + 6
BracketTail == NumListings + 7
FullTok == NumListings + 8
SlashTok == NumListings + 9
TextIds == 1..SlashTok

UrlText(i) ==
    LET
        \* a page of a shop, not of a listing
        ShopUrl == <<"h","t","t","p","s",":","/","/","w","w","w",".","e","t","s","y",".","c","o","m","/","s","h","o","p","/","a">>
        \* a listing URL as a language model may write it: http, no www
        HttpListingUrl == <<"h","t","t","p",":","/","/","e","t","s","y",".","c","o","m","/","l","i","s","t","i","n","g","/","7","/","c">>
        \* a listing path on another site
        OtherSiteUrl == <<"h","t","t","p","s",":","/","/","x",".","c","o","m","/","l","i","s","t","i","n","g","/","1","/","a">>
        \* a listing URL with no path after the id
        BareListingUrl == EtsyListingPrefix \o <<"5">>
        PlainWord == <<"E","t","s","y">>
        \* a listing URL in brackets, as in a markdown link
        BracketedUrl == <<"(">> \o ListingUrl(2) \o <<")">>
    IN
    IF i <= NumListings THEN ListingUrl(i)
    ELSE IF i = ShopTok THEN ShopUrl
    ELSE IF i = HttpTok THEN HttpListingUrl
    ELSE IF i = OtherTok THEN OtherSiteUrl
    ELSE IF i = BareTok THEN BareListingUrl
    ELSE IF i = WordTok THEN PlainWord
    ELSE IF i = BracketTok THEN BracketedUrl
    ELSE IF i = BracketTail THEN ListingUrl(2) \o <<")">>
    ELSE IF i = FullTok THEN ListingUrl(1) \o <<"_","f","u","l","l">>
    ELSE ListingUrl(1) \o <<"/","f","u","l","l">>

TextTable == [i \in TextIds |-> UrlText(i)]
IdOfText(t) == CHOOSE i \in TextIds : TextTable[i] = t

PromptText(i) ==
    IF i = 1 THEN <<"v","i","n","t","a","g","e"," ","l","a","m","p">>
    ELSE IF i = 2 THEN <<"m","u","g">>
    ELSE IF i = 3 THEN <<"v","i","n","t","a","g","e","+","l","a","m","p">>
    ELSE <<"m","u","g">> \o NumText(i)
\* the prompt lists read from the spreadsheet: the first n prompts
PromptLists == {[i \in 1..n |-> i] : n \in 0..MaxPrompts}

\* The text of a discovery response, cut where the patterns cannot match
\* across (white space, quotes, angle brackets): a sequence of tokens.
LongPage == [i \in 1..NumListings |-> IF i = 3 THEN 1 ELSE i]
SeoPages == {
    <<WordTok, ShopTok, BareTok>>,
    <<WordTok, 1, 2, ShopTok, 1>>,
    <<FullTok, SlashTok>>,
    LongPage }
GeoTexts == {
    <<WordTok, ShopTok, OtherTok>>,
    <<HttpTok, ShopTok, OtherTok, BracketTok, HttpTok>>,
    LongPage }
IsLong(resp) == Len(resp) > MAX_LISTINGS_PER_QUERY

\* result.html of a listing scrape, as a sequence of words
Marker == <<"Please", "enable", "JS">>
HtmlBodies == {
    <<>>,
    <<"Vintage", "lamp">>,
    <<"please", "enable", "js">>,
    <<"Please", "enable", "JS">>,
    <<"Error", "Please", "enable", "JS", "and", "reload">> }

(***************************************************************************)
(* The resolvers' pure parts.                                              *)
(***************************************************************************)
Delims == {" ", "\"", "'", "<", ">"}

\* whether https://www\.etsy\.com/listing/[0-9]+/[^\s"'<>]+ matches at i
SeoMatchAt(tok, i) ==
    /\ StartsWithAt(tok, i, EtsyListingPrefix)
    /\ \E j \in (i + Len(EtsyListingPrefix) + 1)..(Len(tok) - 1) :
          /\ \A k \in (i + Len(EtsyListingPrefix))..(j - 1) : tok[k] \in Digits
          /\ tok[j] = "/"
          /\ tok[j + 1] \notin Delims

\* whether https?://[^\s"'>]+ matches at i
GeoMatchAt(tok, i) ==
    \/ (StartsWithAt(tok, i, HttpsScheme) /\ i + Len(HttpsScheme) <= Len(tok))
    \/ (StartsWithAt(tok, i, HttpScheme) /\ i + Len(HttpScheme) <= Len(tok))

Range(s) == {s[i] : i \in 1..Len(s)}

\* the elements of s at the positions in keep, in order
Pick(s, keep) == LET F[i \in 0..Len(s)] ==
                         IF i = 0 THEN <<>>
                         ELSE IF i \in keep THEN Append(F[i - 1], s[i]) ELSE F[i - 1]
                 IN  F[Len(s)]

\* re.findall over the tokens: the leftmost match of each token, which
\* runs to the end of the token
MatchOfSeo(tok) == LET starts == {i \in 1..Len(tok) : SeoMatchAt(tok, i)}
                   IN  IF starts = {} THEN <<>>
                       ELSE <<IdOfText(SubSeq(tok, CHOOSE i \in starts : \A k \in starts : i <= k, Len(tok)))>>

MatchOfGeo(tok) == LET starts == {i \in 1..Len(tok) : GeoMatchAt(tok, i)}
                   IN  IF starts = {} THEN <<>>
                       ELSE <<IdOfText(SubSeq(tok, CHOOSE i \in starts : \A k \in starts : i <= k, Len(tok)))>>

RECURSIVE FindallSeo(_)
FindallSeo(toks) ==
    IF toks = <<>> THEN <<>> ELSE MatchOfSeo(TextTable[Head(toks)]) \o FindallSeo(Tail(toks))

RECURSIVE FindallGeo(_)
FindallGeo(toks) ==
    IF toks = <<>> THEN <<>> ELSE MatchOfGeo(TextTable[Head(toks)]) \o FindallGeo(Tail(toks))

\* "etsy.com" in u and "/listing/" in u
IsEtsyListing(u) == Contains(EtsyCom, u) /\ Contains(ListingSeg, u)

\* mutant: keeps the last occurrence of each URL instead of the first
Dedup_last(s) == Pick(s, {i \in 1..Len(s) : \A j \in (i + 1)..Len(s) : s[j] # s[i]})

\* mutant: removes nothing
Dedup_none(s) == s

\* list(dict.fromkeys(urls)): the first occurrence of each, in order
Dedup(s) == Pick(s, {i \in 1..Len(s) : \A j \in 1..(i - 1) : s[j] # s[i]})

\* lines 129-131
SeoUrlsOf(page, max_urls) == Take(Dedup(FindallSeo(page)), max_urls)

\* lines 176-179
GeoCandidates(text) == LET all == FindallGeo(text)
                       IN  Pick(all, {i \in 1..Len(all) : IsEtsyListing(TextTable[all[i]])})

\* lines 176-180
GeoUrlsOf(text, max_urls) == Take(Dedup(GeoCandidates(text)), max_urls)

SeoResult == [page \in SeoPages |-> SeoUrlsOf(page, MAX_LISTINGS_PER_QUERY)]
GeoResult == [text \in GeoTexts |-> GeoUrlsOf(text, MAX_LISTINGS_PER_QUERY)]

\* file and directory names, held by the number of the first text that
\* gives the name: two URLs (prompts) share a name exactly when they share it
SlugTable == [u \in TextIds |-> safe_slug_from_url(TextTable[u])]
SlugId == [u \in TextIds |-> CHOOSE v \in TextIds :
              /\ SlugTable[v] = SlugTable[u]
              /\ \A w \in TextIds : SlugTable[w] = SlugTable[u] => v <= w]
PromptIds == 1..(MaxPrompts + 1)
QueryTable == [p \in PromptIds |-> safe_query_name(PromptText(p))]
QueryId == [p \in PromptIds |-> CHOOSE q \in PromptIds :
              /\ QueryTable[q] = QueryTable[p]
              /\ \A r \in PromptIds : QueryTable[r] = QueryTable[p] => q <= r]

(***************************************************************************)
(* The retry controller's pure parts.                                      *)
(***************************************************************************)
\* mutant: compares the markup with the marker instead of searching it
IsSoftBlock_exact(html) == html = Marker

\* result.html and "Please enable JS" in result.html
IsSoftBlock(html) == html # <<>> /\ Contains(Marker, html)

\* mutant: range(1, MAX_RETRIES + 2)
HasNextAttempt_offByOne(a) == a + 1 < MAX_RETRIES + 2

\* for attempt in range(1, MAX_RETRIES + 1): whether another attempt follows
HasNextAttempt(a) == a + 1 < MAX_RETRIES + 1

\* for rank, url in enumerate(urls, 1): if rank > MAX_LISTINGS_PER_QUERY: break
LoopHasNext(urls, r) == r <= Len(urls) /\ ~(r > MAX_LISTINGS_PER_QUERY)

BaseDir(ch) == IF ch = "SEO" THEN SEO_BASE_DIR ELSE GEO_BASE_DIR

\* os.path.join(os.path.join(base_dir, query_id), slug + suffix); suffix is
\* ".md", ".html" or "_full.json"
Path(ch, query_id, slug, suffix) == <<BaseDir(ch), query_id, slug, suffix>>

\* os.path.join(geo_query_dir, "gpt_raw_output.txt")
RawOutPath(query_id) == <<GEO_BASE_DIR, query_id, 0, "gpt_raw_output.txt">>

\* the three artifact paths of a slug, in the order they are written
ArtifactPaths(ch, query_id, slug) ==
    << Path(ch, query_id, slug, ".md"),
       Path(ch, query_id, slug, ".html"),
       Path(ch, query_id, slug, "_full.json") >>

VARIABLES
    prompts,          \* the list load_prompts_from_excel returns
    OPENAI_API_KEY,   \* "" when the key is not configured
    cfg_timeout,      \* the configured base timeout (TIMEOUT)
    pc,               \* where run_crawling stands
    idx,              \* position in prompts (1-based), 0 before the loop
    channel,          \* channel of the running fetch loop
    rank,             \* position in the current URL list
    seo_urls,
    geo_urls,
    attempt,          \* loop variable of fetch_with_firecrawl
    timeout,          \* timeout of the next scrape
    scrape_calls,     \* the scrape requests of the running call, with their outcome
    fetch_calls,      \* the calls that returned: their requests and status
    log_row,          \* the dict the call returned
    seo_logs,
    geo_logs,
    files,            \* the artifact store: path -> content
    summary,          \* the crawl summaries written: channel -> rows
    resolutions,      \* the resolver calls made, with their result
    faults,           \* failures the environment may still inject
    longs,            \* over-long discovery responses it may still return
    df_index,         \* extract.py, run_phase1: the master index
    df_json,          \* the records of extract_json, one per index row
    df_md,            \* the records of extract_md
    df_html,          \* the records of extract_html
    df_master,        \* the merged records
    call,             \* a call of one of the naming functions: argument, result
    workers           \* calls of fetch_with_firecrawl that run side by side

vars == << prompts, OPENAI_API_KEY, cfg_timeout, pc, idx, channel, rank, seo_urls,
           geo_urls, attempt, timeout, scrape_calls, fetch_calls, log_row, seo_logs,
           geo_logs, files, summary, resolutions, faults, longs,
           df_index, df_json, df_md, df_html, df_master, call, workers >>

\* what run_crawling leaves alone: the state of run_phase1, of the naming
\* functions' calls and of calls run side by side
extract_vars == << df_index, df_json, df_md, df_html, df_master, call, workers >>

config == << prompts, OPENAI_API_KEY, cfg_timeout >>

\* mutant: grows the base timeout, not the current one
GrowTimeout_fromBase(t) == (cfg_timeout * 3) \div 2

\* int(timeout * 1.5)
GrowTimeout(t) == (t * 3) \div 2

NoRow == [status |-> "none"]
NoCall == [fn |-> "none", arg |-> <<>>, max_len |-> 0, ret |-> <<>>, again |-> <<>>]
EmptyMap == [x \in {} |-> x]

Put(f, k, v) == [x \in (DOMAIN f) \cup {k} |-> IF x = k THEN v ELSE f[x]]

CurUrls == IF channel = "SEO" THEN seo_urls ELSE geo_urls
CurPrompt == prompts[idx]
CurQueryId == QueryId[CurPrompt]
CurUrl == CurUrls[rank]
CurSlug == SlugId[CurUrl]
CurPaths == ArtifactPaths(channel, CurQueryId, CurSlug)

\* the paths the running call (or the call that returned last) has written
Written == UNION {c.wrote : c \in Range(scrape_calls)}

InitCommon ==
    /\ OPENAI_API_KEY \in {"", "sk-set"}
    /\ pc = "start"
    /\ idx = 0
    /\ channel = "SEO"
    /\ rank = 0
    /\ seo_urls = <<>>
    /\ geo_urls = <<>>
    /\ attempt = 0
    /\ timeout = 0
    /\ scrape_calls = <<>>
    /\ fetch_calls = <<>>
    /\ log_row = NoRow
    /\ seo_logs = <<>>
    /\ geo_logs = <<>>
    /\ files = EmptyMap
    /\ summary = EmptyMap
    /\ resolutions = <<>>
    /\ df_index = <<>>
    /\ df_json = <<>>
    /\ df_md = <<>>
    /\ df_html = <<>>
    /\ df_master = <<>>
    /\ call = NoCall
    /\ workers = <<>>

\* runs over up to MaxPrompts prompts, with up to MaxFaults failures
Init ==
    /\ InitCommon
    /\ prompts \in PromptLists
    /\ cfg_timeout = TIMEOUT
    /\ faults = MaxFaults
    /\ longs = 0

\* runs over one prompt whose discovery responses may exceed the cap
InitCap ==
    /\ InitCommon
    /\ prompts = <<1>>
    /\ cfg_timeout = TIMEOUT
    /\ faults = 1
    /\ longs = MaxLong

\* runs over one prompt, for other configured values of TIMEOUT
InitTimeout ==
    /\ InitCommon
    /\ prompts = <<1>>
    /\ cfg_timeout \in {TIMEOUT, TIMEOUT + 1} \cup (1..MaxSmallTimeout)
    /\ faults = MaxFaults
    /\ longs = 0

(***************************************************************************)
(* run_crawling, up to the first resolver call.                            *)
(***************************************************************************)
\* mutant: a list of one prompt is taken for no prompts
LoadPrompts_needsTwo ==
    /\ pc = "start"
    /\ IF Len(prompts) < 2
       THEN pc' = "done" /\ idx' = idx
       ELSE pc' = "seo_resolve" /\ idx' = 1
    /\ UNCHANGED << config, channel, rank, seo_urls, geo_urls, attempt, timeout,
                    scrape_calls, fetch_calls, log_row, seo_logs, geo_logs, files,
                    summary, resolutions, faults, longs >>
    /\ UNCHANGED extract_vars

\* lines 303-310: no prompts, no run
LoadPrompts ==
    /\ pc = "start"
    /\ IF prompts = <<>>
       THEN pc' = "done" /\ idx' = idx
       ELSE pc' = "seo_resolve" /\ idx' = 1
    /\ UNCHANGED << config, channel, rank, seo_urls, geo_urls, attempt, timeout,
                    scrape_calls, fetch_calls, log_row, seo_logs, geo_logs, files,
                    summary, resolutions, faults, longs >>
    /\ UNCHANGED extract_vars

\* mutant: the timeout is kept from the call before
BeginFetch_keepsTimeout(ch, r) ==
    /\ channel' = ch
    /\ rank' = r
    /\ attempt' = 1
    /\ timeout' = IF timeout = 0 THEN cfg_timeout ELSE timeout
    /\ scrape_calls' = <<>>
    /\ pc' = "scrape"

\* entry of fetch_with_firecrawl for the URL at rank r (lines 197-206)
BeginFetch(ch, r) ==
    /\ channel' = ch
    /\ rank' = r
    /\ attempt' = 1
    /\ timeout' = cfg_timeout
    /\ scrape_calls' = <<>>
    /\ pc' = "scrape"

\* the end of one query's GEO part: the next prompt, or the summaries
NextQuery ==
    IF idx < Len(prompts)
    THEN idx' = idx + 1 /\ pc' = "seo_resolve"
    ELSE idx' = idx /\ pc' = "save"

Resolution(ch, raised, response, urls) ==
    [idx |-> idx, channel |-> ch, raised |-> raised, response |-> response, urls |-> urls]

\* after get_seo_urls_from_etsy returned urls (lines 323-329)
SeoContinue(urls) ==
    /\ seo_urls' = urls
    /\ IF LoopHasNext(urls, 1)
       THEN BeginFetch("SEO", 1)
       ELSE /\ pc' = "geo_resolve"
            /\ UNCHANGED << channel, rank, attempt, timeout, scrape_calls >>
    /\ UNCHANGED << config, idx, geo_urls, fetch_calls, log_row, seo_logs, geo_logs,
                    files, summary >>

\* get_seo_urls_from_etsy: the scrape of the search page raises
SeoResolveRaises ==
    /\ pc = "seo_resolve"
    /\ faults > 0
    /\ faults' = faults - 1
    /\ longs' = longs
    /\ resolutions' = Append(resolutions, Resolution("SEO", TRUE, <<>>, <<>>))
    /\ SeoContinue(<<>>)
    /\ UNCHANGED extract_vars

\* get_seo_urls_from_etsy: the scrape returns a page
SeoResolve ==
    /\ pc = "seo_resolve"
    /\ \E page \in SeoPages :
          /\ IsLong(page) => longs > 0
          /\ longs' = IF IsLong(page) THEN longs - 1 ELSE longs
          /\ LET urls == SeoResult[page]
             IN  /\ resolutions' = Append(resolutions, Resolution("SEO", FALSE, page, urls))
                 /\ SeoContinue(urls)
    /\ faults' = faults
    /\ UNCHANGED extract_vars

(***************************************************************************)
(* get_geo_urls_from_openai and the GEO part of run_crawling.              *)
(***************************************************************************)
\* mutant: an empty GEO list ends the loop over the prompts
GeoContinue_abort(urls) ==
    /\ geo_urls' = urls
    /\ IF urls = <<>>
       THEN pc' = "save" /\ idx' = idx
       ELSE pc' = "geo_raw" /\ idx' = idx
    /\ UNCHANGED << config, channel, rank, seo_urls, attempt, timeout, scrape_calls,
                    fetch_calls, log_row, seo_logs, geo_logs, files, summary >>

\* after get_geo_urls_from_openai returned urls (lines 349-352)
GeoContinue(urls) ==
    /\ geo_urls' = urls
    /\ IF urls = <<>>
       THEN NextQuery
       ELSE pc' = "geo_raw" /\ idx' = idx
    /\ UNCHANGED << config, channel, rank, seo_urls, attempt, timeout, scrape_calls,
                    fetch_calls, log_row, seo_logs, geo_logs, files, summary >>

\* if not OPENAI_API_KEY: return [], ""
GeoNoKey ==
    /\ pc = "geo_resolve"
    /\ OPENAI_API_KEY = ""
    /\ resolutions' = Append(resolutions, Resolution("GEO", FALSE, <<>>, <<>>))
    /\ GeoContinue(<<>>)
    /\ UNCHANGED << faults, longs >>
    /\ UNCHANGED extract_vars

\* openai.responses.create raises
GeoResolveRaises ==
    /\ pc = "geo_resolve"
    /\ OPENAI_API_KEY # ""
    /\ faults > 0
    /\ faults' = faults - 1
    /\ longs' = longs
    /\ resolutions' = Append(resolutions, Resolution("GEO", TRUE, <<>>, <<>>))
    /\ GeoContinue(<<>>)
    /\ UNCHANGED extract_vars

\* openai.responses.create returns a text
GeoResolve ==
    /\ pc = "geo_resolve"
    /\ OPENAI_API_KEY # ""
    /\ \E text \in GeoTexts :
          /\ IsLong(text) => longs > 0
          /\ longs' = IF IsLong(text) THEN longs - 1 ELSE longs
          /\ LET urls == GeoResult[text]
             IN  /\ resolutions' = Append(resolutions, Resolution("GEO", FALSE, text, urls))
                 /\ GeoContinue(urls)
    /\ faults' = faults
    /\ UNCHANGED extract_vars

\* after the attempt to save gpt_raw_output.txt (lines 353-365)
GeoLoopStart ==
    /\ IF LoopHasNext(geo_urls, 1)
       THEN BeginFetch("GEO", 1) /\ idx' = idx
       ELSE NextQuery /\ UNCHANGED << channel, rank, attempt, timeout, scrape_calls >>
    /\ UNCHANGED << config, seo_urls, geo_urls, fetch_calls, log_row, seo_logs,
                    geo_logs, summary, resolutions, longs >>

\* gpt_raw_output.txt is written
GeoSaveRaw ==
    /\ pc = "geo_raw"
    /\ files' = Put(files, RawOutPath(CurQueryId), 0)
    /\ faults' = faults
    /\ GeoLoopStart
    /\ UNCHANGED extract_vars

\* writing gpt_raw_output.txt raises; the exception is caught and logged
GeoSaveRawRaises ==
    /\ pc = "geo_raw"
    /\ faults > 0
    /\ faults' = faults - 1
    /\ files' = files
    /\ GeoLoopStart
    /\ UNCHANGED extract_vars

(***************************************************************************)
(* fetch_with_firecrawl: one action per attempt of the retry loop.         *)
(***************************************************************************)
\* random.uniform(1, 3) and random.uniform(10, 20), in seconds: the two ends
\* of each interval
HardJitter == {1, 3}
SoftDelays == {10, 20}

\* mutant: the delay does not grow with the attempt number
HardDelay_flat(a, jitter) == RETRY_DELAY + jitter

\* delay = RETRY_DELAY * attempt + random.uniform(1, 3)
HardDelay(a, jitter) == RETRY_DELAY * a + jitter

\* one firecrawl.scrape request of fetch_with_firecrawl and what followed it:
\* whether the returned markup held the marker, the files written, the
\* delay slept after it (0: no sleep)
ScrapeCall(outcome, marker, wrote, delay) ==
    [attempt |-> attempt, timeout |-> timeout, outcome |-> outcome,
     marker |-> marker, wrote |-> wrote, delay |-> delay]

\* a call of fetch_with_firecrawl that returned status after n scrape requests
FetchCall(n, status) ==
    [idx |-> idx, channel |-> channel, rank |-> rank, requests |-> n, status |-> status]

FailRow ==
    [channel |-> channel, query_id |-> CurQueryId, rank |-> rank, url |-> CurUrl,
     status |-> "fail"]

\* mutant: counts the attempts from 0
SuccessRow_zeroBased ==
    [channel |-> channel, query_id |-> CurQueryId, rank |-> rank, url |-> CurUrl,
     url_slug |-> CurSlug, status |-> "success", md_path |-> CurPaths[1],
     html_path |-> CurPaths[2], json_path |-> CurPaths[3], attempt |-> attempt - 1]

SuccessRow ==
    [channel |-> channel, query_id |-> CurQueryId, rank |-> rank, url |-> CurUrl,
     url_slug |-> CurSlug, status |-> "success", md_path |-> CurPaths[1],
     html_path |-> CurPaths[2], json_path |-> CurPaths[3], attempt |-> attempt]

\* the end of a failed attempt: the next attempt, or the failure result
\* after the loop (lines 206, 268-276)
RetryOrGiveUp ==
    IF HasNextAttempt(attempt)
    THEN /\ attempt' = attempt + 1
         /\ pc' = "scrape"
         /\ UNCHANGED << log_row, fetch_calls >>
    ELSE /\ attempt' = attempt
         /\ pc' = "returned"
         /\ log_row' = FailRow
         /\ fetch_calls' = Append(fetch_calls, FetchCall(Len(scrape_calls) + 1, "fail"))

\* the except branch (lines 259-266)
ExceptBranch ==
    /\ timeout' = GrowTimeout(timeout)
    /\ RetryOrGiveUp

FetchFrame == UNCHANGED << config, idx, channel, rank, seo_urls, geo_urls, seo_logs,
                           geo_logs, summary, resolutions, longs >>

\* firecrawl.scrape raises
ScrapeRaises ==
    /\ pc = "scrape"
    /\ faults > 0
    /\ faults' = faults - 1
    /\ \E jitter \in HardJitter :
          scrape_calls' = Append(scrape_calls,
              ScrapeCall("raise", FALSE, {}, HardDelay(attempt, jitter)))
    /\ files' = files
    /\ ExceptBranch
    /\ FetchFrame
    /\ UNCHANGED extract_vars

\* mutant: the soft-block branch grows the timeout like the except branch
ScrapeSoftBlock_grows ==
    /\ pc = "scrape"
    /\ faults > 0
    /\ \E html \in HtmlBodies, delay \in SoftDelays :
          /\ IsSoftBlock(html)
          /\ scrape_calls' = Append(scrape_calls,
                 ScrapeCall("soft", Contains(Marker, html), {}, delay))
    /\ faults' = faults - 1
    /\ files' = files
    /\ timeout' = GrowTimeout(timeout)
    /\ RetryOrGiveUp
    /\ FetchFrame
    /\ UNCHANGED extract_vars

\* the scrape returns the challenge page (lines 227-233)
ScrapeSoftBlock ==
    /\ pc = "scrape"
    /\ faults > 0
    /\ \E html \in HtmlBodies, delay \in SoftDelays :
          /\ IsSoftBlock(html)
          /\ scrape_calls' = Append(scrape_calls,
                 ScrapeCall("soft", Contains(Marker, html), {}, delay))
    /\ faults' = faults - 1
    /\ files' = files
    /\ timeout' = timeout
    /\ RetryOrGiveUp
    /\ FetchFrame
    /\ UNCHANGED extract_vars

\* the scrape returns a page and the three files are written (lines 235-257)
ScrapeWrites ==
    /\ pc = "scrape"
    /\ \E html \in HtmlBodies :
          /\ ~IsSoftBlock(html)
          /\ scrape_calls' = Append(scrape_calls,
                 ScrapeCall("success", Contains(Marker, html), Range(CurPaths), 0))
    /\ files' = [p \in (DOMAIN files) \cup Range(CurPaths) |->
                    IF p \in Range(CurPaths) THEN CurUrl ELSE files[p]]
    /\ log_row' = SuccessRow
    /\ fetch_calls' = Append(fetch_calls, FetchCall(Len(scrape_calls) + 1, "success"))
    /\ pc' = "returned"
    /\ UNCHANGED << attempt, timeout, faults >>
    /\ FetchFrame
    /\ UNCHANGED extract_vars

\* the scrape returns a page and a file write raises when n of the three
\* files exist (the last of them possibly incomplete): the write of the
\* markdown or of the html file, or the open of the next file.  An open of
\* the markdown file that raises leaves what ScrapeRaises leaves.
ScrapeWriteRaises ==
    /\ pc = "scrape"
    /\ faults > 0
    /\ \E html \in HtmlBodies, n \in 1..2, jitter \in HardJitter :
          /\ ~IsSoftBlock(html)
          /\ LET made == {CurPaths[i] : i \in 1..n}
             IN  /\ scrape_calls' = Append(scrape_calls,
                        ScrapeCall("write_raise", Contains(Marker, html), made,
                                   HardDelay(attempt, jitter)))
                 /\ files' = [p \in (DOMAIN files) \cup made |->
                                 IF p \in made THEN CurUrl ELSE files[p]]
    /\ faults' = faults - 1
    /\ ExceptBranch
    /\ FetchFrame
    /\ UNCHANGED extract_vars

(***************************************************************************)
(* run_crawling: the row of the returned call, the next URL, the end.      *)
(***************************************************************************)
\* mutant: only the rows of successful fetches are kept
AppendTo_onlySuccess(log, row) == IF row.status = "success" THEN Append(log, row) ELSE log

\* mutant: the row is appended twice
AppendTo_twice(log, row) == Append(Append(log, row), row)

\* seo_logs.append(log_row), geo_logs.append(log_row)
AppendTo(log, row) == Append(log, row)

\* lines 337-341 and 373-375
AppendRow ==
    /\ pc = "returned"
    /\ LET row == [p \in (DOMAIN log_row) \cup {"prompt"} |->
                      IF p = "prompt" THEN CurPrompt ELSE log_row[p]]
       IN  IF channel = "SEO"
           THEN seo_logs' = AppendTo(seo_logs, row) /\ geo_logs' = geo_logs
           ELSE geo_logs' = AppendTo(geo_logs, row) /\ seo_logs' = seo_logs
    /\ IF LoopHasNext(CurUrls, rank + 1)
       THEN BeginFetch(channel, rank + 1) /\ idx' = idx
       ELSE /\ IF channel = "SEO" THEN pc' = "geo_resolve" /\ idx' = idx ELSE NextQuery
            /\ UNCHANGED << channel, rank, attempt, timeout, scrape_calls >>
    /\ UNCHANGED << config, seo_urls, geo_urls, fetch_calls, log_row, files, summary,
                    resolutions, faults, longs >>
    /\ UNCHANGED extract_vars

\* mutant: both summaries are written, whatever the logs hold
SaveLogs_always ==
    /\ pc = "save"
    /\ summary' = [c \in {"SEO", "GEO"} |-> IF c = "SEO" THEN seo_logs ELSE geo_logs]
    /\ pc' = "done"
    /\ UNCHANGED << config, idx, channel, rank, seo_urls, geo_urls, attempt, timeout,
                    scrape_calls, fetch_calls, log_row, seo_logs, geo_logs, files,
                    resolutions, faults, longs >>
    /\ UNCHANGED extract_vars

\* lines 380-390: a summary is written for a channel whose log is not empty
SaveLogs ==
    /\ pc = "save"
    /\ summary' = [c \in {ch \in {"SEO", "GEO"} :
                            (IF ch = "SEO" THEN seo_logs ELSE geo_logs) # <<>>} |->
                      IF c = "SEO" THEN seo_logs ELSE geo_logs]
    /\ pc' = "done"
    /\ UNCHANGED << config, idx, channel, rank, seo_urls, geo_urls, attempt, timeout,
                    scrape_calls, fetch_calls, log_row, seo_logs, geo_logs, files,
                    resolutions, faults, longs >>
    /\ UNCHANGED extract_vars

Next ==
    \/ LoadPrompts
    \/ SeoResolveRaises
    \/ SeoResolve
    \/ GeoNoKey
    \/ GeoResolveRaises
    \/ GeoResolve
    \/ GeoSaveRaw
    \/ GeoSaveRawRaises
    \/ ScrapeRaises
    \/ ScrapeSoftBlock
    \/ ScrapeWrites
    \/ ScrapeWriteRaises
    \/ AppendRow
    \/ SaveLogs

Spec == Init /\ [][Next]_vars

(***************************************************************************)
(* Calls of safe_query_name and safe_slug_from_url on texts around the     *)
(* truncation length, and a second call on the result of the first.        *)
(***************************************************************************)
\* the state of a process that does not crawl
InitStopped ==
    /\ prompts = <<>>
    /\ OPENAI_API_KEY = ""
    /\ cfg_timeout = TIMEOUT
    /\ idx = 0
    /\ channel = "SEO"
    /\ rank = 0
    /\ seo_urls = <<>>
    /\ geo_urls = <<>>
    /\ attempt = 0
    /\ timeout = 0
    /\ scrape_calls = <<>>
    /\ fetch_calls = <<>>
    /\ log_row = NoRow
    /\ seo_logs = <<>>
    /\ geo_logs = <<>>
    /\ resolutions = <<>>
    /\ faults = 0
    /\ longs = 0

crawl_vars == << prompts, OPENAI_API_KEY, cfg_timeout, idx, channel, rank, seo_urls,
                 geo_urls, attempt, timeout, scrape_calls, fetch_calls, log_row,
                 seo_logs, geo_logs, resolutions, faults, longs >>

\* safe_slug_from_url has the parameter max_len, 80 when not given
\* the arguments: n characters, then a tail of up to two characters that are
\* allowed by both patterns, by the query pattern alone, or by neither
NameCalls ==
    LET TailChars == {"a", "_", "-", "(", "U+FF08", "U+4E2D", "/", " ", "U+9FA6"}
        Tails == {<<>>} \cup {<<c>> : c \in TailChars} \cup {<<c, d>> : c, d \in TailChars}
        Lead(n) == [i \in 1..n |-> IF i % 2 = 1 THEN "a" ELSE ":"]
        NameArgs == {Lead(n) \o w : n \in {0, QUERY_MAX_LEN - 1, SLUG_MAX_LEN - 1},
                                   w \in Tails}
    IN  {[fn |-> "safe_query_name", arg |-> x, max_len |-> QUERY_MAX_LEN,
          ret |-> <<>>, again |-> <<>>] : x \in NameArgs}
        \cup {[fn |-> "safe_slug_from_url", arg |-> x, max_len |-> m,
               ret |-> <<>>, again |-> <<>>] : x \in NameArgs, m \in {0, 1, SLUG_MAX_LEN}}

InitNaming ==
    /\ InitStopped
    /\ pc = "naming"
    /\ files = EmptyMap
    /\ summary = EmptyMap
    /\ df_index = <<>>
    /\ df_json = <<>>
    /\ df_md = <<>>
    /\ df_html = <<>>
    /\ df_master = <<>>
    /\ call \in NameCalls
    /\ workers = <<>>

\* the function of a call, applied to x
Named(c, x) == IF c.fn = "safe_query_name" THEN safe_query_name(x) ELSE safe_slug(x, c.max_len)

ApplyName ==
    /\ pc = "naming"
    /\ call' = [call EXCEPT !.ret = Named(call, call.arg)]
    /\ pc' = "named"
    /\ UNCHANGED << crawl_vars, workers, files, summary, df_index, df_json, df_md, df_html, df_master >>

ApplyNameAgain ==
    /\ pc = "named"
    /\ call' = [call EXCEPT !.again = Named(call, call.ret)]
    /\ pc' = "renamed"
    /\ UNCHANGED << crawl_vars, workers, files, summary, df_index, df_json, df_md, df_html, df_master >>

NextNaming ==
    \/ ApplyName
    \/ ApplyNameAgain

SpecNaming == InitNaming /\ [][NextNaming]_vars

SpecCap == InitCap /\ [][Next]_vars

\* run_crawling when every request returns or raises and every sleep ends:
\* the program is one thread, which takes its next step
SpecFair == Init /\ [][Next]_vars /\ WF_vars(Next)

SpecTimeout == InitTimeout /\ [][Next]_vars

(***************************************************************************)
(* extract.py: the scan of the artifact store, build_master_index.         *)
(***************************************************************************)
SEO_DIR == "outputs_etsy_final"
GEO_DIR == "outputs_GEO_final"

\* the characters a file name ends with
SuffixText(suffix) ==
    IF suffix = ".md" THEN <<".","m","d">>
    ELSE IF suffix = ".html" THEN <<".","h","t","m","l">>
    ELSE IF suffix = "_full.json" THEN <<"_","f","u","l","l",".","j","s","o","n">>
    ELSE <<"g","p","t","_","r","a","w","_","o","u","t","p","u","t",".","t","x","t">>

\* the name of the file at a path of the store: f"{slug}.md", f"{slug}.html",
\* f"{slug}_full.json", "gpt_raw_output.txt"
FileName(p) == IF p[3] = 0 THEN SuffixText(p[4]) ELSE SlugTable[p[3]] \o SuffixText(p[4])

\* os.listdir(q_dir)
ListDir(fs, base, query_id) ==
    {FileName(p) : p \in {x \in DOMAIN fs : x[1] = base /\ x[2] = query_id}}

\* os.listdir(base_dir): the query directories that hold a file, and the
\* crawl summary of the channel when it was written; name 0 is the summary
ListBase(fs, sm, channel_name, base) ==
    {[name |-> p[2], isdir |-> TRUE] : p \in {x \in DOMAIN fs : x[1] = base}}
    \cup (IF channel_name \in DOMAIN sm THEN {[name |-> 0, isdir |-> FALSE]} ELSE {})

\* \.(md|html|json)$ and (_full)?
Exts == {<<".","m","d">>, <<".","h","t","m","l">>, <<".","j","s","o","n">>}
FullSuffix == <<"_","f","u","l","l">>
\* the lengths of group 1 with which (.+?)(_full)?\.(md|html|json)$ matches f
ScanEnds(f) ==
    {k \in 1..Len(f) :
        LET rest == SubSeq(f, k + 1, Len(f))
        IN  rest \in Exts \/ \E x \in Exts : rest = FullSuffix \o x}

\* mutant: group 1 is greedy, (.+)
ScanMatch_greedy(f) ==
    IF ScanEnds(f) = {} THEN <<>>
    ELSE SubSeq(f, 1, CHOOSE k \in ScanEnds(f) : \A j \in ScanEnds(f) : k >= j)

\* re.match(r"(.+?)(_full)?\.(md|html|json)$", f).group(1): the shortest
\* group 1; <<>> when f does not match
ScanMatch(f) ==
    IF ScanEnds(f) = {} THEN <<>>
    ELSE SubSeq(f, 1, CHOOSE k \in ScanEnds(f) : \A j \in ScanEnds(f) : k <= j)

\* s < t for str: by the code points of the first characters that differ;
\* CodePoints holds the characters of a slug in the order of their code points
StrLess(s, t) ==
    LET CodePoints == <<"-">> \o DigitText
            \o <<"A","B","C","D","E","F","G","H","I","J","K","L","M","N","O","P","Q","R","S","T","U","V","W","X","Y","Z">>
            \o <<"_">>
            \o <<"a","b","c","d","e","f","g","h","i","j","k","l","m","n","o","p","q","r","s","t","u","v","w","x","y","z">>
        Ord(c) == CHOOSE i \in 1..Len(CodePoints) : CodePoints[i] = c
    IN  \E i \in 1..(Min(Len(s), Len(t)) + 1) :
            /\ \A j \in 1..(i - 1) : s[j] = t[j]
            /\ \/ (i > Len(s) /\ i <= Len(t))
               \/ (i <= Len(s) /\ i <= Len(t) /\ Ord(s[i]) < Ord(t[i]))

\* mutant: sorted(slugs, reverse=True)
Sorted_descending(S) ==
    LET F[T \in SUBSET S] ==
            IF T = {} THEN <<>>
            ELSE LET m == CHOOSE x \in T : \A y \in T \ {x} : StrLess(y, x)
                 IN  <<m>> \o F[T \ {m}]
    IN  F[S]

\* sorted(slugs)
Sorted(S) ==
    LET F[T \in SUBSET S] ==
            IF T = {} THEN <<>>
            ELSE LET m == CHOOSE x \in T : \A y \in T \ {x} : StrLess(x, y)
                 IN  <<m>> \o F[T \ {m}]
    IN  F[S]

\* os.path.join(q_dir, name)
JoinPath(base, query_id, name) == << base, query_id, name >>

\* lines 44-61: the rows of one query directory
IndexRows(fs, channel_name, base, query_id) ==
    LET slugs == {ScanMatch(f) : f \in ListDir(fs, base, query_id)} \ {<<>>}
        order == Sorted(slugs)
    IN  [r \in 1..Len(order) |->
            [query_id |-> query_id, channel |-> channel_name, rank |-> r,
             url_slug |-> order[r],
             json_path |-> JoinPath(base, query_id, order[r] \o SuffixText("_full.json")),
             md_path |-> JoinPath(base, query_id, order[r] \o SuffixText(".md")),
             html_path |-> JoinPath(base, query_id, order[r] \o SuffixText(".html"))]]

\* lines 34-61: the rows of one channel; os.listdir gives the directories in
\* an order of its own, here by number
ChannelRows(fs, sm, channel_name, base) ==
    LET dirs == {e.name : e \in {x \in ListBase(fs, sm, channel_name, base) : x.isdir}}
        F[Q \in SUBSET dirs] ==
            IF Q = {} THEN <<>>
            ELSE LET q == CHOOSE x \in Q : \A y \in Q : x <= y
                 IN  IndexRows(fs, channel_name, base, q) \o F[Q \ {q}]
    IN  F[dirs]

build_master_index(fs, sm) ==
    ChannelRows(fs, sm, "SEO", SEO_DIR) \o ChannelRows(fs, sm, "GEO", GEO_DIR)

(***************************************************************************)
(* extract.py: the content of the artifact files and the three extractors. *)
(* A content is a record of one shape: kind says what reading the file     *)
(* gives ("missing": open raises; "undecodable": read raises; "invalid":   *)
(* json.load raises; "array": JSON that is not an object; "object";        *)
(* "text": markdown; "markup": html; "raw": the GEO raw output).  A JSON    *)
(* value is [t, v], t its type ("null", "str", "num", "list").             *)
(***************************************************************************)
Null == [t |-> "null", v |-> <<>>]
Str(text) == [t |-> "str", v |-> text]
Doc(kind) ==
    [kind |-> kind, title |-> Null, price |-> Null, originalPrice |-> Null,
     images |-> Null, lines |-> <<>>, words |-> <<>>, price_text |-> Null]

\* open(path) and read: the content of the file at the path
ReadFile(fs, path) ==
    LET hits == {p \in DOMAIN fs : JoinPath(p[1], p[2], FileName(p)) = path}
    IN  IF hits = {} THEN Doc("missing") ELSE fs[CHOOSE p \in hits : TRUE]

\* re.search(r"[\d.]+", v).group(): the first run of digits and dots; <<>>
\* when there is none
FirstRun(text) ==
    LET class == Digits \cup {"."}
        starts == {i \in 1..Len(text) : text[i] \in class}
    IN  IF starts = {} THEN <<>>
        ELSE LET b == CHOOSE i \in starts : \A k \in starts : i <= k
                 e == CHOOSE j \in b..Len(text) :
                          /\ \A k \in b..j : text[k] \in class
                          /\ (j = Len(text) \/ text[j + 1] \notin class)
             IN  SubSeq(text, b, e)

\* whether float(run) returns: digits with at most one dot
IsFloat(run) ==
    /\ Cardinality({i \in 1..Len(run) : run[i] = "."}) <= 1
    /\ \E i \in 1..Len(run) : run[i] \in Digits

\* float(run), as the fraction n / d
Float(run) ==
    LET digits == Pick(run, {i \in 1..Len(run) : run[i] \in Digits})
        dots == {i \in 1..Len(run) : run[i] = "."}
        after == IF dots = {} THEN 0 ELSE Len(run) - (CHOOSE i \in dots : TRUE)
        Val[i \in 0..Len(digits)] ==
            IF i = 0 THEN 0
            ELSE 10 * Val[i - 1] + (CHOOSE k \in 0..9 : DigitText[k + 1] = digits[i])
        Pow[i \in 0..after] == IF i = 0 THEN 1 ELSE 10 * Pow[i - 1]
    IN  [n |-> Val[Len(digits)], d |-> Pow[after]]

\* whether parse_price(v) raises: float() of a run that is no number
PriceRaises(v) == v.t = "str" /\ FirstRun(v.v) # <<>> /\ ~IsFloat(FirstRun(v.v))

\* parse_price(v) where it returns: <<>> for None, <<x>> for the float x
parse_price(v) ==
    IF v.t # "str" \/ FirstRun(v.v) = <<>> THEN <<>> ELSE <<Float(FirstRun(v.v))>>

\* round(x, 4) of x = num / den >= 0, in ten-thousandths; Python rounds the
\* binary quotient, which for a quotient half-way between two values may
\* fall to either side: here to the even one
Round4(num, den) ==
    LET Div[i \in 0..4] ==
            IF i = 0 THEN [q |-> num \div den, r |-> num % den]
            ELSE [q |-> 10 * Div[i - 1].q + (10 * Div[i - 1].r) \div den,
                  r |-> (10 * Div[i - 1].r) % den]
        q == Div[4].q
        r == Div[4].r
    IN  IF 2 * r > den THEN q + 1
        ELSE IF 2 * r < den THEN q
        ELSE IF q % 2 = 0 THEN q ELSE q + 1

\* line 100, in ten-thousandths:
\* round((original - price) / original, 4) if original and price and price < original else 0
Discount(price, original) ==
    IF /\ original # <<>> /\ original[1].n # 0
       /\ price # <<>> /\ price[1].n # 0
       /\ price[1].n * original[1].d < original[1].n * price[1].d
    THEN Round4(original[1].n * price[1].d - price[1].n * original[1].d,
                original[1].n * price[1].d)
    ELSE 0

Keys == {"query_id", "channel", "rank"}
\* out = {"query_id": ..., "channel": ..., "rank": ...}
KeyRow(row) == [query_id |-> row.query_id, channel |-> row.channel, rank |-> row.rank]

\* whether extract_json(row) raises: j.get of a value that is no dict, or
\* parse_price
JsonRaises(fs, row) ==
    LET j == ReadFile(fs, row.json_path)
    IN  \/ j.kind = "array"
        \/ j.kind = "object" /\ (PriceRaises(j.price) \/ PriceRaises(j.originalPrice))

\* extract_json(row) where it returns
extract_json(fs, row) ==
    LET j == ReadFile(fs, row.json_path)
        price == parse_price(j.price)
        original == parse_price(j.originalPrice)
    IN  IF j.kind # "object" THEN KeyRow(row)
        ELSE [query_id |-> row.query_id, channel |-> row.channel, rank |-> row.rank,
              title |-> IF j.title.v = <<>> THEN <<>> ELSE <<j.title.v>>,
              price |-> price,
              originalPrice |-> original,
              discount |-> <<Discount(price, original)>>,
              number_of_images |-> IF j.images.t = "list" THEN Len(j.images.v) ELSE 0]

\* extract_md(row); the text is a sequence of lines, a line a sequence of
\* words; a word made of the characters #*[]() is no word of clean
extract_md(fs, row) ==
    LET text == ReadFile(fs, row.md_path)
        marks == {"#", "##", "*", "**", "[", "]", "(", ")"}
        words(l) == Cardinality({i \in 1..Len(l) : l[i] \notin marks})
        Count[i \in 0..Len(text.lines)] ==
            IF i = 0 THEN 0 ELSE Count[i - 1] + words(text.lines[i])
        cats == {i \in 1..Len(text.lines) :
                    Len(text.lines[i]) > 1 /\ text.lines[i][1] = "Category:"}
    IN  IF text.kind # "text" THEN KeyRow(row)
        ELSE [query_id |-> row.query_id, channel |-> row.channel, rank |-> row.rank,
              md_word_count |-> Count[Len(text.lines)],
              md_num_sections |->
                  Cardinality({i \in 1..Len(text.lines) :
                      text.lines[i] # <<>> /\ text.lines[i][1] \in {"#", "##"}}),
              md_top_category |->
                  IF cats = {} THEN <<>>
                  ELSE <<text.lines[CHOOSE i \in cats : \A k \in cats : i <= k][2]>>]

\* whether extract_html(row) raises: float() of the price element's text
HtmlRaises(fs, row) ==
    LET html == ReadFile(fs, row.html_path)
    IN  html.kind = "markup" /\ PriceRaises(html.price_text)

\* extract_html(row) where it returns; words are the visible text,
\* price_text the text of the first span of class price or currency
extract_html(fs, row) ==
    LET html == ReadFile(fs, row.html_path)
        lower == [i \in 1..Len(html.words) |->
                     IF html.words[i] = "Star" THEN "star"
                     ELSE IF html.words[i] = "Seller" THEN "seller"
                     ELSE html.words[i]]
    IN  IF html.kind # "markup" THEN KeyRow(row)
        ELSE [query_id |-> row.query_id, channel |-> row.channel, rank |-> row.rank,
              html_price |-> parse_price(html.price_text),
              html_star_seller_flag |-> Contains(<<"star", "seller">>, lower),
              html_description_word_count |-> Len(html.words)]

\* mutant: the frames are joined on the rank alone
SameKey_rankOnly(a, b) == a.rank = b.rank

\* on=["query_id", "channel", "rank"]
SameKey(a, b) == a.query_id = b.query_id /\ a.channel = b.channel /\ a.rank = b.rank

\* left.merge(right, on=keys, how="left"): a row per left row and matching
\* right row, the left row alone when no right row matches
MergeLeft(left, right) ==
    LET joined(l) ==
            LET hits == Pick(right, {k \in 1..Len(right) : SameKey(l, right[k])})
            IN  IF hits = <<>> THEN <<l>>
                ELSE [k \in 1..Len(hits) |->
                         [c \in (DOMAIN l) \cup (DOMAIN hits[k]) |->
                             IF c \in DOMAIN l THEN l[c] ELSE hits[k][c]]]
        F[i \in 0..Len(left)] == IF i = 0 THEN <<>> ELSE F[i - 1] \o joined(left[i])
    IN  F[Len(left)]

(***************************************************************************)
(* run_phase1 over a store left by earlier runs of the crawl.              *)
(***************************************************************************)
\* the stores: in the SEO directory of query 1 the files of listing 1 in
\* every combination of contents, beside them nothing, or files of listing
\* 10 or of the listing whose slug ends in _full; a GEO directory with or
\* without the raw output; and stores of one JSON file with every pair of
\* prices.  JsonOdd has fields of unexpected type: a number as price, a
\* string as images.
Stores ==
    LET Missing == Doc("missing")
        JsonGood ==
            [Doc("object") EXCEPT !.title = Str(<<"L","a","m","p">>),
                                  !.price = Str(<<"$","7",".","5","0">>),
                                  !.originalPrice = Str(<<"$","1","0",".","0","0">>),
                                  !.images = [t |-> "list", v |-> <<"img", "img">>]]
        JsonOdd ==
            [Doc("object") EXCEPT !.price = [t |-> "num", v |-> <<"7">>],
                                  !.images = Str(<<"x">>)]
        JsonBadPrice ==
            [Doc("object") EXCEPT !.title = Str(<<"L","a","m","p">>),
                                  !.price = Str(<<"1",".","2","9","9",".","0","0">>),
                                  !.originalPrice = Str(<<"$","1","0",".","0","0">>)]
        MdText ==
            [Doc("text") EXCEPT !.lines = << <<"#", "Vintage", "lamp">>,
                                             <<"Category:", "Home", ">", "Lamps">>,
                                             <<"*", "brass">> >>]
        HtmlGood ==
            [Doc("markup") EXCEPT !.words = <<"Star", "Seller", "lamp">>,
                                  !.price_text = Str(<<"U","S","$"," ","1","2",".","5","0">>)]
        HtmlBadPrice ==
            [Doc("markup") EXCEPT !.words = <<"lamp">>,
                                  !.price_text = Str(<<"e","s","t","."," ","$","5",".","0","0">>)]
        PriceValues ==
            {Null, [t |-> "num", v |-> <<"1","2">>], Str(<<"f","r","e","e">>),
             Str(<<"$","1","0",".","0","0">>), Str(<<"$","7",".","5","0">>), Str(<<"0">>),
             Str(<<"$","2","0">>), Str(<<".">>), Str(<<"1",".","2","9","9",".","0","0">>),
             Str(<<"$","1","2",".","3","4","5">>)}
        \* the files of one slug in a query directory: those whose content is given
        Group(ch, query_id, u, j, m, h) ==
            {x \in {<<Path(ch, query_id, SlugId[u], ".md"), m>>,
                    <<Path(ch, query_id, SlugId[u], ".html"), h>>,
                    <<Path(ch, query_id, SlugId[u], "_full.json"), j>>} : x[2].kind # "missing"}
        MapOf(S) == [p \in {x[1] : x \in S} |-> (CHOOSE x \in S : x[1] = p)[2]]
        besides == {{}, Group("SEO", 1, 10, Missing, Missing, HtmlGood),
                    Group("SEO", 1, 10, JsonGood, MdText, HtmlGood),
                    Group("SEO", 1, FullTok, JsonGood, MdText, HtmlGood),
                    Group("SEO", 1, FullTok, Missing, MdText, Missing)}
        geo == {{}, {<<RawOutPath(1), Doc("raw")>>},
                {<<RawOutPath(1), Doc("raw")>>} \cup Group("GEO", 1, 1, JsonGood, MdText, HtmlGood),
                Group("GEO", 2, 2, Missing, Missing, HtmlGood)}
    IN  {MapOf(Group("SEO", 1, 1, j, m, h) \cup b \cup g) :
            j \in {Missing, Doc("invalid"), Doc("array"), JsonGood, JsonOdd, JsonBadPrice},
            m \in {Missing, Doc("undecodable"), MdText},
            h \in {Missing, Doc("undecodable"), HtmlGood, HtmlBadPrice},
            b \in besides, g \in geo}
        \cup {MapOf(Group("SEO", 1, 1,
                          [Doc("object") EXCEPT !.price = a, !.originalPrice = o],
                          Missing, Missing)) : a, o \in PriceValues}

InitExtract ==
    /\ InitStopped
    /\ pc = "phase1"
    /\ files \in Stores
    \* the crawl summaries an earlier run may have left
    /\ summary \in
          {EmptyMap,
           [c \in {"SEO"} |-> << [channel |-> "SEO", query_id |-> 1, rank |-> 1,
                                  url |-> 1, status |-> "fail", prompt |-> 1] >>]}
    /\ df_index = <<>>
    /\ df_json = <<>>
    /\ df_md = <<>>
    /\ df_html = <<>>
    /\ df_master = <<>>
    /\ call = NoCall
    /\ workers = <<>>

\* lines 261-264
BuildMasterIndex ==
    /\ pc = "phase1"
    /\ df_index' = build_master_index(files, summary)
    /\ pc' = IF df_index' = <<>> THEN "phase1_end" ELSE "extract_json"
    /\ UNCHANGED << crawl_vars, workers, files, summary, call, df_json, df_md, df_html, df_master >>

\* line 267, when extract_json raises for a row
ExtractJsonRaises ==
    /\ pc = "extract_json"
    /\ \E i \in 1..Len(df_index) : JsonRaises(files, df_index[i])
    /\ pc' = "phase1_raised"
    /\ UNCHANGED << crawl_vars, workers, files, summary, call, df_index, df_json, df_md, df_html,
                    df_master >>

\* lines 267-268
ExtractJson ==
    /\ pc = "extract_json"
    /\ \A i \in 1..Len(df_index) : ~JsonRaises(files, df_index[i])
    /\ df_json' = [i \in 1..Len(df_index) |-> extract_json(files, df_index[i])]
    /\ pc' = "extract_md"
    /\ UNCHANGED << crawl_vars, workers, files, summary, call, df_index, df_md, df_html, df_master >>

\* lines 272-273
ExtractMd ==
    /\ pc = "extract_md"
    /\ df_md' = [i \in 1..Len(df_index) |-> extract_md(files, df_index[i])]
    /\ pc' = "extract_html"
    /\ UNCHANGED << crawl_vars, workers, files, summary, call, df_index, df_json, df_html, df_master >>

\* line 277, when extract_html raises for a row
ExtractHtmlRaises ==
    /\ pc = "extract_html"
    /\ \E i \in 1..Len(df_index) : HtmlRaises(files, df_index[i])
    /\ pc' = "phase1_raised"
    /\ UNCHANGED << crawl_vars, workers, files, summary, call, df_index, df_json, df_md, df_html,
                    df_master >>

\* lines 277-278
ExtractHtml ==
    /\ pc = "extract_html"
    /\ \A i \in 1..Len(df_index) : ~HtmlRaises(files, df_index[i])
    /\ df_html' = [i \in 1..Len(df_index) |-> extract_html(files, df_index[i])]
    /\ pc' = "merge"
    /\ UNCHANGED << crawl_vars, workers, files, summary, call, df_index, df_json, df_md, df_master >>

\* lines 282-287
Merge ==
    /\ pc = "merge"
    /\ df_master' = MergeLeft(MergeLeft(df_json, df_md), df_html)
    /\ pc' = "phase1_end"
    /\ UNCHANGED << crawl_vars, workers, files, summary, call, df_index, df_json, df_md, df_html >>

NextExtract ==
    \/ BuildMasterIndex
    \/ ExtractJsonRaises
    \/ ExtractJson
    \/ ExtractMd
    \/ ExtractHtmlRaises
    \/ ExtractHtml
    \/ Merge

SpecExtract == InitExtract /\ [][NextExtract]_vars

(***************************************************************************)
(* extract.py run on the store a run of run_crawling has left: the index   *)
(* build of run_phase1.                                                    *)
(***************************************************************************)
\* runs over one prompt, with up to MaxFaults failures
InitPipeline ==
    /\ InitCommon
    /\ prompts = <<1>>
    /\ cfg_timeout = TIMEOUT
    /\ faults = MaxFaults
    /\ longs = 0

\* lines 290-291, after the crawl has ended
StartPhase1 ==
    /\ pc = "done"
    /\ pc' = "phase1"
    /\ UNCHANGED << crawl_vars, files, summary, extract_vars >>

NextPipeline ==
    \/ Next
    \/ StartPhase1
    \/ BuildMasterIndex

SpecPipeline == InitPipeline /\ [][NextPipeline]_vars

(***************************************************************************)
(* Two calls of fetch_with_firecrawl on distinct URLs of one query and     *)
(* channel, run side by side by a worker pool: each call has its own       *)
(* locals, the directory is the only thing they share, and each opened     *)
(* file is written in a step of its own.                                   *)
(***************************************************************************)
InitPool ==
    /\ InitStopped
    /\ pc = "pool"
    /\ files = EmptyMap
    /\ summary = EmptyMap
    /\ df_index = <<>>
    /\ df_json = <<>>
    /\ df_md = <<>>
    /\ df_html = <<>>
    /\ df_master = <<>>
    /\ call = NoCall
    /\ LET \* the URLs the two calls are given: two plain listings and the
           \* two URLs that safe_slug_from_url maps to one slug
           PoolUrls == {1, 2, FullTok, SlashTok}
           \* the locals of a call at its entry (lines 192-206)
           Worker(ch, url, r) ==
               [channel |-> ch, query_id |-> 1, url |-> url, rank |-> r,
                attempt |-> 1, timeout |-> TIMEOUT, at |-> "scrape", written |-> 0,
                outcomes |-> <<>>, row |-> NoRow]
       IN  \E ch \in {"SEO", "GEO"}, u1 \in PoolUrls, u2 \in PoolUrls :
              /\ u1 # u2
              /\ workers = << Worker(ch, u1, 1), Worker(ch, u2, 2) >>

PoolFrame == UNCHANGED << crawl_vars, pc, summary, df_index, df_json, df_md, df_html,
                          df_master, call >>

\* a request of call w raises or returns the challenge page (lines 227-233,
\* 259-276)
PoolScrapeFails(w) ==
    /\ workers[w].at = "scrape"
    /\ \E outcome \in {"raise", "soft"} :
          LET me == workers[w]
              t == IF outcome = "raise" THEN GrowTimeout(me.timeout) ELSE me.timeout
              tried == [me EXCEPT !.timeout = t,
                                  !.outcomes = Append(me.outcomes, outcome)]
          IN  workers' = [workers EXCEPT ![w] =
                  IF HasNextAttempt(me.attempt)
                  THEN [tried EXCEPT !.attempt = me.attempt + 1]
                  ELSE [tried EXCEPT !.at = "returned",
                                     !.row = [channel |-> me.channel,
                                              query_id |-> me.query_id,
                                              rank |-> me.rank, url |-> me.url,
                                              status |-> "fail"]]]
    /\ files' = files
    /\ PoolFrame

\* a request of call w returns a page (lines 211-225)
PoolScrapeReturns(w) ==
    /\ workers[w].at = "scrape"
    /\ workers' = [workers EXCEPT ![w].at = "write",
                                  ![w].outcomes = Append(workers[w].outcomes, "success")]
    /\ files' = files
    /\ PoolFrame

\* call w opens and writes its next file; after the third it returns
\* (lines 236-257)
PoolWriteFile(w) ==
    /\ workers[w].at = "write"
    /\ LET me == workers[w]
           k == me.written + 1
           paths == ArtifactPaths(me.channel, me.query_id, SlugId[me.url])
       IN  /\ files' = Put(files, paths[k], me.url)
           /\ workers' = [workers EXCEPT ![w] =
                  IF k < 3
                  THEN [me EXCEPT !.written = k]
                  ELSE [me EXCEPT !.written = k, !.at = "returned",
                                  !.row = [channel |-> me.channel,
                                           query_id |-> me.query_id,
                                           rank |-> me.rank, url |-> me.url,
                                           url_slug |-> SlugId[me.url],
                                           status |-> "success",
                                           md_path |-> paths[1],
                                           html_path |-> paths[2],
                                           json_path |-> paths[3],
                                           attempt |-> me.attempt]]]
    /\ PoolFrame

NextPool ==
    \E w \in DOMAIN workers :
        \/ PoolScrapeFails(w)
        \/ PoolScrapeReturns(w)
        \/ PoolWriteFile(w)

SpecPool == InitPool /\ [][NextPool]_vars

(***************************************************************************)
(* Properties of fetch_with_firecrawl.                                     *)
(***************************************************************************)
Hard(c) == c.outcome \in {"raise", "write_raise"}
Failed(c) == c.outcome # "success"
\* a call of fetch_with_firecrawl is running or has just returned
InCall == pc \in {"scrape", "returned"}
NumFailed == Cardinality({i \in 1..Len(scrape_calls) : Failed(scrape_calls[i])})

\* C1: one call issues at most MAX_RETRIES scrape requests, numbered 1, 2, ...;
\* no request follows a success; soft blocks and exceptions draw from the
\* same budget: once MAX_RETRIES requests have failed, whatever the mix, no
\* further request is pending and the call has returned the failure result.
C1_AttemptBudget ==
    /\ Len(scrape_calls) <= MAX_RETRIES
    /\ \A i \in 1..Len(scrape_calls) : scrape_calls[i].attempt = i
    /\ \A i \in 1..(Len(scrape_calls) - 1) : Failed(scrape_calls[i])
    /\ NumFailed = MAX_RETRIES => pc # "scrape" /\ log_row.status = "fail"

\* a call that gave up after soft blocks and exceptions
C1_Witness ==
    /\ pc = "returned"
    /\ log_row.status = "fail"
    /\ Len(scrape_calls) = MAX_RETRIES
    /\ \E i, j \in 1..Len(scrape_calls) :
          scrape_calls[i].outcome = "soft" /\ scrape_calls[j].outcome = "raise"

\* C2: the files one call has written for its slug are none or all three,
\* after every attempt and at the return; a call that returns fail has
\* written none.
C2_AllOrNothing ==
    InCall =>
        /\ Written = {} \/ Written = Range(CurPaths)
        /\ (pc = "returned" /\ log_row.status = "fail") => Written = {}

\* a retry follows the i-th request of the running call
RetryFollows(i) == i < Len(scrape_calls) \/ (pc = "scrape" /\ attempt = i + 1)

\* C3 as claimed: an attempt whose response holds the marker writes nothing,
\* is not a success, and is followed by a retry, for every attempt number
\* 1..MAX_RETRIES.
C3_SoftBlockAlwaysRetried ==
    InCall => \A i \in 1..Len(scrape_calls) :
        scrape_calls[i].marker =>
            /\ scrape_calls[i].wrote = {}
            /\ scrape_calls[i].outcome # "success"
            /\ RetryFollows(i)

\* C3 amended: an attempt whose response holds the marker writes nothing and
\* is not a success; a retry follows it when its number is below
\* MAX_RETRIES, and on attempt MAX_RETRIES the call returns the failure
\* result instead.
C3_SoftBlockRetriedWithinBudget ==
    InCall => \A i \in 1..Len(scrape_calls) :
        scrape_calls[i].marker =>
            /\ scrape_calls[i].wrote = {}
            /\ scrape_calls[i].outcome = "soft"
            /\ i < MAX_RETRIES => RetryFollows(i)
            /\ i = MAX_RETRIES =>
                  pc = "returned" /\ log_row.status = "fail" /\ Len(scrape_calls) = i

\* a soft block on the first attempt that was retried, and one on the last
C3_Witness ==
    /\ pc = "returned"
    /\ Len(scrape_calls) = MAX_RETRIES
    /\ scrape_calls[1].marker
    /\ scrape_calls[2].outcome = "raise"
    /\ scrape_calls[MAX_RETRIES].marker

\* C4 as claimed: after an exception the next attempt's timeout is at least
\* 1.5 times the previous one, for every configured base timeout.
C4_TimeoutGrowsByFactor ==
    \A i \in 2..Len(scrape_calls) :
        Hard(scrape_calls[i - 1]) =>
            2 * scrape_calls[i].timeout >= 3 * scrape_calls[i - 1].timeout

\* C4 amended: the first attempt uses the base timeout; after an exception
\* the next attempt's timeout is 1.5 times the previous one rounded down to
\* a whole millisecond, so it is 1.5 times it when the previous timeout is
\* even and half a millisecond less when it is odd; from TIMEOUT = 300000
\* every attempt of a call uses exactly 1.5 times the previous timeout.
C4_TimeoutGrowsByFloor ==
    /\ Len(scrape_calls) >= 1 => scrape_calls[1].timeout = cfg_timeout
    /\ \A i \in 2..Len(scrape_calls) :
          LET prev == scrape_calls[i - 1].timeout
              this == scrape_calls[i].timeout
          IN  Hard(scrape_calls[i - 1]) =>
                 /\ prev % 2 = 0 => 2 * this = 3 * prev
                 /\ prev % 2 = 1 => 2 * this = 3 * prev - 1
                 /\ cfg_timeout = TIMEOUT => 2 * this = 3 * prev

\* the third attempt after two exceptions, from the program's TIMEOUT
C4_Witness ==
    /\ cfg_timeout = TIMEOUT
    /\ Len(scrape_calls) = 3
    /\ Hard(scrape_calls[1]) /\ Hard(scrape_calls[2])
    /\ scrape_calls[3].timeout = 675000

RECURSIVE GrowN(_, _)
GrowN(t, h) == IF h = 0 THEN t ELSE (3 * GrowN(t, h - 1)) \div 2
HardBefore(i) == Cardinality({j \in 1..(i - 1) : Hard(scrape_calls[j])})

\* C5: the attempt after a soft block uses the timeout of the soft-blocked
\* attempt, and the timeout of every attempt (made or pending) is the base
\* timeout grown once per exception that preceded it in the call.
C5_SoftKeepsTimeout ==
    /\ \A i \in 1..Len(scrape_calls) :
          /\ (i > 1 /\ scrape_calls[i - 1].outcome = "soft") =>
                 scrape_calls[i].timeout = scrape_calls[i - 1].timeout
          /\ scrape_calls[i].timeout = GrowN(cfg_timeout, HardBefore(i))
    /\ pc = "scrape" => timeout = GrowN(cfg_timeout, HardBefore(Len(scrape_calls) + 1))

\* an exception, then a soft block, then a third attempt
C5_Witness ==
    /\ Len(scrape_calls) = 3
    /\ scrape_calls[1].outcome = "raise"
    /\ scrape_calls[2].outcome = "soft"
    /\ scrape_calls[3].timeout = 450000

\* C6: a call that returns success returns the three artifact paths of its
\* slug and the number of the successful attempt, which is one more than
\* the failures before it and lies in 1..MAX_RETRIES; the three files exist
\* and hold what was fetched for the URL.
C6_SuccessResult ==
    (pc = "returned" /\ log_row.status = "success") =>
        /\ log_row.attempt = Len(scrape_calls)
        /\ scrape_calls[Len(scrape_calls)].outcome = "success"
        /\ log_row.attempt = 1 + NumFailed
        /\ log_row.attempt \in 1..MAX_RETRIES
        /\ log_row.url = CurUrl /\ log_row.rank = rank /\ log_row.channel = channel
        /\ << log_row.md_path, log_row.html_path, log_row.json_path >> = CurPaths
        /\ \A p \in Range(CurPaths) : p \in DOMAIN files /\ files[p] = CurUrl

\* a success on the third attempt, after a soft block and an exception
C6_Witness ==
    /\ pc = "returned"
    /\ log_row.status = "success"
    /\ log_row.attempt = 3
    /\ scrape_calls[1].outcome = "soft"
    /\ Hard(scrape_calls[2])

(***************************************************************************)
(* Properties of the resolvers and of run_crawling.                        *)
(***************************************************************************)
LogOf(ch) == IF ch = "SEO" THEN seo_logs ELSE geo_logs
\* the rows of a channel's log for the prompt at position i
RowsOf(ch, i) == Pick(LogOf(ch), {k \in 1..Len(LogOf(ch)) : LogOf(ch)[k].prompt = prompts[i]})
\* the listing URLs found in a discovery response, in order, with repeats
Candidates(r) == IF r.channel = "SEO" THEN FindallSeo(r.response) ELSE GeoCandidates(r.response)
\* the k-th distinct element of s in first-seen order
FirstSeen(s, k) ==
    s[CHOOSE i \in 1..Len(s) :
        /\ Cardinality(Range(SubSeq(s, 1, i))) = k
        /\ \A j \in 1..(i - 1) : Cardinality(Range(SubSeq(s, 1, j))) < k]
\* the fetch loop of the k-th resolver call is over
LoopOver(k) == k < Len(resolutions) \/ pc \notin {"geo_raw", "scrape", "returned"}

\* C7: for both resolvers, the URLs resolved for a (query, channel) are the
\* first min(cap, d) distinct candidates in first-seen order, d the number
\* of distinct candidates; the rows logged for it carry the ranks 1, 2, ...
\* with these URLs in order, one row per URL once its loop is over.
C7_RanksAndUrls ==
    \A k \in 1..Len(resolutions) :
        LET r == resolutions[k]
            cand == Candidates(r)
            rows == RowsOf(r.channel, r.idx)
        IN  /\ Len(r.urls) = Min(MAX_LISTINGS_PER_QUERY, Cardinality(Range(cand)))
            /\ \A j \in 1..Len(r.urls) : r.urls[j] = FirstSeen(cand, j)
            /\ Len(rows) <= Len(r.urls)
            /\ \A j \in 1..Len(rows) : rows[j].rank = j /\ rows[j].url = r.urls[j]
            /\ LoopOver(k) => Len(rows) = Len(r.urls)

\* a finished run with a response of more distinct listings than the cap,
\* one of them repeated
C7_Witness ==
    /\ pc = "done"
    /\ \E k \in 1..Len(resolutions) :
          LET cand == Candidates(resolutions[k])
          IN  /\ Cardinality(Range(cand)) > MAX_LISTINGS_PER_QUERY
              /\ Len(cand) > Cardinality(Range(cand))
              /\ Len(RowsOf(resolutions[k].channel, 1)) = MAX_LISTINGS_PER_QUERY
    /\ \E k \in 1..Len(resolutions) :
          resolutions[k].channel = "GEO" /\ Len(resolutions[k].urls) = 2

\* C8: the resolvers are called once per (query, channel), SEO then GEO, in
\* the order of the prompts, whatever the earlier calls returned; a call
\* whose upstream request raised, or a GEO call without key, returns the
\* empty list, and nothing is fetched or logged for that (query, channel);
\* at the end of the run every (query, channel) has been resolved.
C8_DiscoveryIsolated ==
    /\ \A k \in 1..Len(resolutions) :
          LET r == resolutions[k]
          IN  /\ r.idx = (k + 1) \div 2
              /\ r.channel = IF k % 2 = 1 THEN "SEO" ELSE "GEO"
              /\ (r.raised \/ (r.channel = "GEO" /\ OPENAI_API_KEY = "")) =>
                    /\ r.urls = <<>>
                    /\ RowsOf(r.channel, r.idx) = <<>>
                    /\ \A i \in 1..Len(fetch_calls) :
                          ~(fetch_calls[i].idx = r.idx /\ fetch_calls[i].channel = r.channel)
                    /\ (InCall /\ idx = r.idx) => channel # r.channel
    /\ pc \in {"save", "done"} /\ prompts # <<>> => Len(resolutions) = 2 * Len(prompts)

\* a finished run in which the first SEO call and the last GEO call raised
\* and the calls between them resolved listings
C8_Witness ==
    /\ pc = "done"
    /\ Len(resolutions) = 4
    /\ resolutions[1].raised
    /\ resolutions[2].urls # <<>>
    /\ resolutions[3].urls # <<>>
    /\ resolutions[4].raised

CallsOfChannel(ch) == Pick(fetch_calls, {i \in 1..Len(fetch_calls) : fetch_calls[i].channel = ch})

\* C9: each returned call adds one row to its channel's log, with the
\* call's rank and status, success or fail alike; at the end of the run
\* each (query, channel) has one row per resolved Listing, and the summary
\* written for a channel holds the rows of its log.
C9_OneRowPerListing ==
    /\ \A ch \in {"SEO", "GEO"} :
          LET calls == CallsOfChannel(ch)
              pending == IF pc = "returned" /\ channel = ch THEN 1 ELSE 0
          IN  /\ Len(LogOf(ch)) = Len(calls) - pending
              /\ \A i \in 1..Len(LogOf(ch)) :
                    /\ LogOf(ch)[i].status = calls[i].status
                    /\ LogOf(ch)[i].rank = calls[i].rank
                    /\ LogOf(ch)[i].prompt = prompts[calls[i].idx]
    /\ pc \in {"save", "done"} =>
          \A k \in 1..Len(resolutions) :
              LET r == resolutions[k]
                  rows == RowsOf(r.channel, r.idx)
              IN  /\ Len(rows) = Len(r.urls)
                  /\ \A j \in 1..Len(r.urls) :
                        Cardinality({i \in 1..Len(rows) :
                            rows[i].rank = j /\ rows[i].url = r.urls[j]
                            /\ rows[i].status \in {"success", "fail"}}) = 1
    /\ pc = "done" => \A ch \in DOMAIN summary : summary[ch] = LogOf(ch)

\* a finished run whose first Listing failed, followed by a row for the
\* next Listing and by rows for the next query
C9_Witness ==
    /\ pc = "done"
    /\ Len(seo_logs) >= 3
    /\ seo_logs[1].status = "fail"
    /\ seo_logs[2].prompt = prompts[1]
    /\ seo_logs[3].prompt = prompts[2]
    /\ "SEO" \in DOMAIN summary

\* a finished run over one query whose SEO response holds 3 listing matches,
\* 2 of them distinct, in which call a succeeded on its first request and
\* call b failed MAX_RETRIES requests
Scenario(a, b) ==
    /\ pc = "done"
    /\ Len(prompts) = 1
    /\ ~resolutions[1].raised
    /\ Len(FindallSeo(resolutions[1].response)) = 3
    /\ Cardinality(Range(FindallSeo(resolutions[1].response))) = 2
    /\ a.channel = "SEO" /\ a.requests = 1 /\ a.status = "success"
    /\ b.channel = "SEO" /\ b.requests = MAX_RETRIES /\ b.status # "success"

\* the SEO summary has two rows, at ranks 1 and 2, the row of call a with
\* status success and the row of call b with status st
ScenarioRows(a, b, st) ==
    /\ "SEO" \in DOMAIN summary
    /\ Len(summary["SEO"]) = 2
    /\ \A j \in 1..2 : summary["SEO"][j].rank = j
    /\ summary["SEO"][1].url # summary["SEO"][2].url
    /\ {a.rank, b.rank} = {1, 2}
    /\ summary["SEO"][a.rank].status = "success"
    /\ summary["SEO"][b.rank].status = st

C15_NoPromptsNoWork ==
    /\ prompts = <<>> =>
          /\ pc \in {"start", "done"}
          /\ resolutions = <<>> /\ fetch_calls = <<>> /\ scrape_calls = <<>>
          /\ seo_logs = <<>> /\ geo_logs = <<>>
          /\ files = EmptyMap /\ summary = EmptyMap
    /\ (pc = "done" /\ prompts # <<>>) =>
          /\ idx = Len(prompts)
          /\ \A i \in 1..Len(prompts), ch \in {"SEO", "GEO"} :
                \E k \in 1..Len(resolutions) :
                    resolutions[k].idx = i /\ resolutions[k].channel = ch

\* the run over no prompts has ended
C15_Witness ==
    pc = "done" /\ prompts = <<>> /\ resolutions = <<>>

\* C17 as claimed: whatever the failures of a call are, soft or hard, and
\* whatever the draws, the delay slept after a failed attempt is larger
\* than the delay slept after the failed attempt before it.
C17_DelayGrows ==
    \A i \in 2..Len(scrape_calls) :
        Failed(scrape_calls[i]) => scrape_calls[i].delay > scrape_calls[i - 1].delay

\* C17 amended: after an exception on attempt a the delay is
\* RETRY_DELAY * a plus a draw from [1, 3], so of two exceptions on
\* successive attempts the later one sleeps longer; after a soft block the
\* delay is a draw from [10, 20], whatever the attempt number.
C17_HardDelayGrows ==
    \A i \in 1..Len(scrape_calls) :
        LET c == scrape_calls[i]
        IN  /\ Hard(c) => c.delay \in (RETRY_DELAY * i + 1)..(RETRY_DELAY * i + 3)
            /\ c.outcome = "soft" => c.delay \in 10..20
            /\ c.outcome = "success" => c.delay = 0
            /\ (i > 1 /\ Hard(c) /\ Hard(scrape_calls[i - 1])) =>
                  c.delay > scrape_calls[i - 1].delay

\* a soft block that slept the longest delay, then two exceptions whose
\* delays are as close as the draws allow
C17_Witness ==
    /\ Len(scrape_calls) = 3
    /\ scrape_calls[1].outcome = "soft" /\ scrape_calls[1].delay = 20
    /\ Hard(scrape_calls[2]) /\ Hard(scrape_calls[3])
    /\ scrape_calls[3].delay = scrape_calls[2].delay + 1

\* the rows a returned call has in its channel's log
RowsOfCall(c) ==
    LET log == LogOf(c.channel)
    IN  Pick(log, {k \in 1..Len(log) :
                      log[k].prompt = prompts[c.idx] /\ log[k].rank = c.rank})
\* the calls whose row run_crawling has appended
Appended == IF pc = "returned" THEN SubSeq(fetch_calls, 1, Len(fetch_calls) - 1) ELSE fetch_calls

\* C18 as claimed: the run log holds one record per (Listing, attempt
\* number): a call contributes as many records as it made attempts.
C18_RecordPerAttempt ==
    \A k \in 1..Len(Appended) : Len(RowsOfCall(Appended[k])) = Appended[k].requests

\* C18 amended: the run log holds one record per Listing, the final
\* outcome of its call, with status success or fail; the record of a
\* success carries the number of the successful attempt, the record of a
\* failure carries no attempt number, and no record carries a timeout.
C18_RecordPerListing ==
    \A k \in 1..Len(Appended) :
        LET c == Appended[k]
            rows == RowsOfCall(c)
        IN  /\ Len(rows) = 1
            /\ rows[1].status = c.status
            /\ c.status \in {"success", "fail"}
            /\ "timeout" \notin DOMAIN rows[1]
            /\ IF c.status = "success"
               THEN rows[1].attempt = c.requests
               ELSE "attempt" \notin DOMAIN rows[1]

\* a Listing that succeeded on attempt 3 after a soft block and an
\* exception, and its one row
C18_Witness ==
    /\ pc = "done"
    /\ Len(scrape_calls) = 3
    /\ scrape_calls[1].outcome = "soft"
    /\ scrape_calls[2].outcome = "raise"
    /\ scrape_calls[3].outcome = "success"
    /\ fetch_calls[Len(fetch_calls)].requests = 3
    /\ Len(RowsOfCall(fetch_calls[Len(fetch_calls)])) = 1

\* C19 as claimed: nothing is persisted before the end of the run, and a
\* run that processed a prompt ends with a summary for SEO and one for GEO.
C19_LogPerChannel ==
    /\ pc # "done" => summary = EmptyMap
    /\ (pc = "done" /\ prompts # <<>>) => DOMAIN summary = {"SEO", "GEO"}

\* C19 amended: nothing is persisted before the end of the run; at the end,
\* after the last query, a summary is written for each channel whose log
\* holds at least one row, with the rows of that log, and none for a
\* channel that fetched no Listing.
C19_LogPerFetchedChannel ==
    /\ pc # "done" => summary = EmptyMap
    /\ pc = "done" =>
          /\ DOMAIN summary = {ch \in {"SEO", "GEO"} : LogOf(ch) # <<>>}
          /\ \A ch \in DOMAIN summary : summary[ch] = LogOf(ch)
          /\ idx = Len(prompts)

\* a finished run that fetched SEO Listings and resolved no GEO Listing
C19_Witness ==
    /\ pc = "done"
    /\ prompts # <<>>
    /\ "SEO" \in DOMAIN summary
    /\ "GEO" \notin DOMAIN summary
    /\ \E k \in 1..Len(resolutions) : resolutions[k].channel = "GEO"

AllowedOf(c) == IF c.fn = "safe_query_name" THEN QueryChars ELSE SlugChars

\* C14: the result of safe_slug_from_url and of safe_query_name has the
\* length min(len(x), max_len), holds only characters of the function's
\* allowed set and equals what replacing before truncating gives; applying
\* the function to its result gives the result again.
C14_NameIdempotent ==
    /\ pc \in {"named", "renamed"} =>
          /\ Len(call.ret) = Min(Len(call.arg), call.max_len)
          /\ Range(call.ret) \subseteq AllowedOf(call)
          /\ call.ret = Take([i \in 1..Len(call.arg) |->
                                 IF call.arg[i] \in AllowedOf(call) THEN call.arg[i] ELSE "_"],
                             call.max_len)
    /\ pc = "renamed" => call.again = call.ret

\* a query text longer than 50 characters whose 50th character is replaced
\* and whose 51st is cut, named twice
C14_Witness ==
    /\ pc = "renamed"
    /\ call.fn = "safe_query_name"
    /\ Len(call.arg) = QUERY_MAX_LEN + 1
    /\ call.arg[QUERY_MAX_LEN] = "/"
    /\ call.ret[QUERY_MAX_LEN] = "_"
    /\ call.ret # call.arg

(***************************************************************************)
(* Properties of run_phase1.                                               *)
(***************************************************************************)
\* the rows of the index of one query directory, in the order of the index
IndexOf(ch, q) ==
    Pick(df_index, {i \in 1..Len(df_index) :
                       df_index[i].channel = ch /\ df_index[i].query_id = q})

\* the names of the files of a query directory of the store
NamesIn(ch, q) ==
    {FileName(p) : p \in {x \in DOMAIN files : x[1] = BaseDir(ch) /\ x[2] = q}}

\* the slug group a file name belongs to: the name without its extension
\* .md, .html or .json and without one _full before the extension; <<>> for
\* a name with another extension
Stem(f) ==
    LET ends == {x \in Exts : Len(f) > Len(x)
                              /\ SubSeq(f, Len(f) - Len(x) + 1, Len(f)) = x}
        base == SubSeq(f, 1, Len(f) - Len(CHOOSE x \in ends : TRUE))
    IN  IF ends = {} THEN <<>>
        ELSE IF Len(base) > Len(FullSuffix)
                /\ SubSeq(base, Len(base) - Len(FullSuffix) + 1, Len(base)) = FullSuffix
             THEN SubSeq(base, 1, Len(base) - Len(FullSuffix))
        ELSE base

\* C20: build_master_index gives to every query directory of either channel
\* one entry per slug group of its files, whichever of the three formats
\* the group holds, with the ranks 1..n in ascending order of the slugs;
\* a file that is no .md, .html or .json file (the raw output of GEO, the
\* crawl summary) gives no entry.
C20_EntryPerSlugGroup ==
    pc # "phase1" =>
        /\ \A i \in 1..Len(df_index) :
              /\ df_index[i].channel \in {"SEO", "GEO"}
              /\ NamesIn(df_index[i].channel, df_index[i].query_id) # {}
        /\ \A ch \in {"SEO", "GEO"} : \A q \in {p[2] : p \in DOMAIN files} :
              LET stems == {Stem(f) : f \in NamesIn(ch, q)} \ {<<>>}
                  rows == IndexOf(ch, q)
              IN  /\ Len(rows) = Cardinality(stems)
                  /\ {rows[k].url_slug : k \in 1..Len(rows)} = stems
                  /\ \A k \in 1..Len(rows) : rows[k].rank = k
                  /\ \A k \in 1..(Len(rows) - 1) :
                        StrLess(rows[k].url_slug, rows[k + 1].url_slug)

\* the store of an earlier run: two slug groups in the SEO directory of
\* query 1, one of them of the HTML file alone, the SEO summary beside the
\* directory, and a GEO directory with the raw output and one slug group
C20_Witness ==
    /\ pc = "extract_json"
    /\ "SEO" \in DOMAIN summary
    /\ RawOutPath(1) \in DOMAIN files
    /\ Len(IndexOf("SEO", 1)) = 2
    /\ Len(IndexOf("GEO", 1)) = 1
    /\ Len(df_index) = 3
    /\ \E i \in 1..Len(df_index) :
          /\ df_index[i].channel = "SEO"
          /\ ReadFile(files, df_index[i].html_path).kind = "markup"
          /\ ReadFile(files, df_index[i].md_path).kind = "missing"
          /\ ReadFile(files, df_index[i].json_path).kind = "missing"

\* what an artifact file holds is missing, unparsable or well formed: no
\* JSON document that is not an object, and no price text whose first run
\* of digits and dots is not a number
Readable(doc) ==
    /\ doc.kind # "array"
    /\ ~PriceRaises(doc.price)
    /\ ~PriceRaises(doc.originalPrice)
    /\ ~PriceRaises(doc.price_text)

\* C11: when run_phase1 has merged, the merged rows have the keys
\* (query_id, channel, rank) of the master index, one merged row per index
\* entry; and run_phase1 gets to the merge for every store whose artifacts
\* are missing, unparsable or well formed.
C11_MergeTotal ==
    /\ pc = "phase1_end" /\ df_index # <<>> =>
          /\ {KeyRow(df_master[i]) : i \in 1..Len(df_master)}
                 = {KeyRow(df_index[i]) : i \in 1..Len(df_index)}
          /\ Len(df_master) = Len(df_index)
          /\ \A i, k \in 1..Len(df_master) :
                KeyRow(df_master[i]) = KeyRow(df_master[k]) => i = k
    /\ (\A p \in DOMAIN files : Readable(files[p])) => pc # "phase1_raised"

\* a merged index of three entries, two of them of rank 1 in the two
\* channels, one with a JSON file that json.load rejects, a markdown file
\* that cannot be decoded and no HTML file, one with all its fields
C11_Witness ==
    /\ pc = "phase1_end"
    /\ Len(df_master) = 3
    /\ \E i, k \in 1..Len(df_index) :
          /\ df_index[i].channel = "SEO" /\ df_index[k].channel = "GEO"
          /\ df_index[i].rank = df_index[k].rank
    /\ \E i \in 1..Len(df_index) :
          /\ ReadFile(files, df_index[i].json_path).kind = "invalid"
          /\ ReadFile(files, df_index[i].md_path).kind = "undecodable"
          /\ ReadFile(files, df_index[i].html_path).kind = "missing"
          /\ DOMAIN df_master[i] = Keys
    /\ \E i \in 1..Len(df_master) :
          {"title", "md_word_count", "html_price"} \subseteq DOMAIN df_master[i]

\* a frame holds one record per index row, with the key fields of the row
FrameOf(df) ==
    /\ Len(df) = Len(df_index)
    /\ \A i \in 1..Len(df) : Keys \subseteq DOMAIN df[i] /\ KeyRow(df[i]) = KeyRow(df_index[i])

\* C16: extract_json, extract_md and extract_html raise for no index row,
\* whatever the three artifact files of the row hold, and return a record
\* with the key fields: no artifact keeps run_phase1 from producing the
\* records of all index rows.
C16_ExtractionTotal ==
    /\ pc # "phase1_raised"
    /\ pc = "phase1_end" /\ df_index # <<>> =>
          FrameOf(df_json) /\ FrameOf(df_md) /\ FrameOf(df_html)

\* the index row of a slug group of which only the HTML file exists, a
\* file that can be read
HtmlOnly(row) ==
    /\ ReadFile(files, row.html_path).kind = "markup"
    /\ ReadFile(files, row.md_path).kind = "missing"
    /\ ReadFile(files, row.json_path).kind = "missing"

HtmlFields == {"html_price", "html_star_seller_flag", "html_description_word_count"}

\* C12: a slug group of which only the HTML file exists has an entry in
\* the index; for this entry extract_json and extract_md return the key
\* fields alone, and extract_html returns a record that holds the fields
\* taken from the HTML.
C12_HtmlOnlyGroup ==
    /\ pc # "phase1" =>
          \A ch \in {"SEO", "GEO"} : \A q \in {p[2] : p \in DOMAIN files} :
              \A f \in NamesIn(ch, q) :
                  (/\ Stem(f) # <<>>
                   /\ \A g \in NamesIn(ch, q) : Stem(g) = Stem(f) => g = f
                   /\ f = Stem(f) \o SuffixText(".html"))
                  => \E k \in 1..Len(IndexOf(ch, q)) :
                        /\ IndexOf(ch, q)[k].url_slug = Stem(f)
                        /\ IndexOf(ch, q)[k].html_path = JoinPath(BaseDir(ch), q, f)
    /\ \A i \in 1..Len(df_index) :
          HtmlOnly(df_index[i]) =>
              /\ Len(df_json) = Len(df_index) => DOMAIN df_json[i] = Keys
              /\ Len(df_md) = Len(df_index) => DOMAIN df_md[i] = Keys
              /\ (pc = "phase1_raised" /\ Len(df_md) = Len(df_index)) =>
                    ~HtmlRaises(files, df_index[i])
              /\ Len(df_html) = Len(df_index) =>
                    /\ HtmlFields \subseteq DOMAIN df_html[i]
                    /\ KeyRow(df_html[i]) = KeyRow(df_index[i])

\* a < b for the fractions a and b
FracLess(a, b) == a.n * b.d < b.n * a.d

\* C13: in a record of extract_json made from a JSON object, the discount
\* is (original - price) / original rounded to 4 decimals when
\* 0 < price < original and 0 otherwise when price and originalPrice both
\* parse to a number; when one of them does not, the discount is absent.
C13_DiscountAbsentOrComputed ==
    Len(df_json) = Len(df_index) =>
        \A i \in 1..Len(df_json) :
            ReadFile(files, df_index[i].json_path).kind = "object" =>
                LET r == df_json[i]
                IN  IF r.price = <<>> \/ r.originalPrice = <<>>
                    THEN "discount" \in DOMAIN r => r.discount = <<>>
                    ELSE LET p == r.price[1]
                             o == r.originalPrice[1]
                         IN  r.discount =
                                 IF p.n > 0 /\ FracLess(p, o)
                                 THEN <<Round4(o.n * p.d - p.n * o.d, o.n * p.d)>>
                                 ELSE <<0>>

\* C24: every backoff sleep of a call is followed by another attempt on the
\* same URL; after the failure of attempt MAX_RETRIES the call does not
\* sleep before it returns the failure result.
C24_SleepThenRetry ==
    InCall => \A i \in 1..Len(scrape_calls) :
        /\ scrape_calls[i].delay > 0 => RetryFollows(i)
        /\ (i = MAX_RETRIES /\ Failed(scrape_calls[i])) => scrape_calls[i].delay = 0

\* C25: the first attempt of every call of fetch_with_firecrawl has number
\* 1 and the base timeout, and a call gives up only after MAX_RETRIES
\* requests of its own, whatever the calls before it met; a step of a call
\* changes no file but those of the call's own slug, and not the base
\* timeout.
C25_RetryStatePerUrl ==
    /\ [](/\ (pc = "scrape" /\ scrape_calls = <<>>) =>
                attempt = 1 /\ timeout = cfg_timeout
          /\ Len(scrape_calls) >= 1 =>
                scrape_calls[1].attempt = 1 /\ scrape_calls[1].timeout = cfg_timeout
          /\ \A k \in 1..Len(fetch_calls) :
                /\ fetch_calls[k].requests <= MAX_RETRIES
                /\ fetch_calls[k].status = "fail" => fetch_calls[k].requests = MAX_RETRIES
          /\ pc = "scrape" => Len(scrape_calls) < MAX_RETRIES)
    /\ [][pc = "scrape" =>
             /\ cfg_timeout' = cfg_timeout
             /\ \A p \in DOMAIN files : p \in DOMAIN files'
             /\ \A p \in DOMAIN files' :
                   p \notin Range(CurPaths) => p \in DOMAIN files /\ files'[p] = files[p]]_vars

\* the second Listing of a query about to be fetched, after the call for
\* the first gave up on three exceptions with its timeout grown twice
C25_Witness ==
    /\ pc = "scrape"
    /\ scrape_calls = <<>>
    /\ rank = 2
    /\ attempt = 1
    /\ timeout = TIMEOUT
    /\ fetch_calls # <<>>
    /\ fetch_calls[Len(fetch_calls)].status = "fail"
    /\ fetch_calls[Len(fetch_calls)].requests = MAX_RETRIES
    /\ faults = 0

\* the rows of the two logs and the row of the call that returned last
SuccessRows ==
    {r \in Range(seo_logs) \cup Range(geo_logs) \cup {log_row} : r.status = "success"}

\* C22: a fetch overwrites the files of no other URL of the run: the three
\* paths of every success row hold what was fetched for the row's URL,
\* after every call and at the end of the run.
C22_OverwriteOnlySameListing ==
    \A r \in SuccessRows :
        \A p \in {r.md_path, r.html_path, r.json_path} :
            p \in DOMAIN files /\ files[p] = r.url

\* the slugs whose three files a call of the run has written into the
\* directory of query q of a channel
SlugsWritten(ch, q) ==
    {r.url_slug : r \in {x \in SuccessRows : x.channel = ch /\ x.query_id = q}}

\* the index has been built from the store of the run
Scanned == pc \in {"extract_json", "phase1_end"}

\* C21: for a query directory that holds the artifact triples of a set of
\* slugs, written by fetch_with_firecrawl, and no other artifact file,
\* build_master_index gives the entries of exactly these slugs, each with
\* the three paths of the files written for the slug.
C21_WriteScanRoundTrip ==
    Scanned =>
        \A ch \in {"SEO", "GEO"} : \A q \in {p[2] : p \in DOMAIN files} :
            LET S == SlugsWritten(ch, q)
                held == {p[3] : p \in {x \in DOMAIN files :
                                          x[1] = BaseDir(ch) /\ x[2] = q}} \ {0}
                rows == IndexOf(ch, q)
                name(u, suffix) == JoinPath(BaseDir(ch), q, FileName(Path(ch, q, u, suffix)))
            IN  held = S =>
                    /\ {rows[k].url_slug : k \in 1..Len(rows)} = {SlugTable[u] : u \in S}
                    /\ \A k \in 1..Len(rows) : \A u \in S :
                          rows[k].url_slug = SlugTable[u] =>
                              /\ rows[k].md_path = name(u, ".md")
                              /\ rows[k].html_path = name(u, ".html")
                              /\ rows[k].json_path = name(u, "_full.json")

\* C27: the rank of an index entry is the position of its slug among the
\* slugs of the files present in its query directory, in ascending order,
\* whatever rank the crawl gave to the Listing: a Listing of which the
\* directory holds no file has no entry and takes no rank.
C27_ScanRankBySlugOrder ==
    Scanned =>
        \A i \in 1..Len(df_index) :
            LET row == df_index[i]
                stems == {Stem(f) : f \in NamesIn(row.channel, row.query_id)} \ {<<>>}
            IN  /\ row.url_slug \in stems
                /\ row.rank = 1 + Cardinality({s \in stems : StrLess(s, row.url_slug)})

\* a run in which the fetch of the first Listing of a query failed and the
\* fetch of the second succeeded: the crawl summary has the second at rank
\* 2, the index has its slug at rank 1
C27_Witness ==
    /\ Scanned
    /\ "SEO" \in DOMAIN summary
    /\ \E k \in 1..Len(summary["SEO"]) : \E i \in 1..Len(df_index) :
          LET r == summary["SEO"][k]
          IN  /\ r.status = "success"
              /\ r.rank = 2
              /\ summary["SEO"][1].status = "fail"
              /\ df_index[i].channel = "SEO"
              /\ df_index[i].query_id = r.query_id
              /\ df_index[i].url_slug = SlugTable[r.url_slug]
              /\ df_index[i].rank = 1

\* the steps a run can still take from a state at most: per call
\* MAX_RETRIES requests and the append of its row, per channel
\* MAX_LISTINGS_PER_QUERY calls, per prompt the two resolver calls, the
\* write of the raw output and the calls of the two channels, then the
\* summaries
StepsOfCall == MAX_RETRIES + 1
StepsOfGeo == 2 + MAX_LISTINGS_PER_QUERY * StepsOfCall
StepsOfPrompt == 1 + MAX_LISTINGS_PER_QUERY * StepsOfCall + StepsOfGeo
StepsLeft ==
    LET later == 1 + (Len(prompts) - idx) * StepsOfPrompt
        after == (Min(Len(CurUrls), MAX_LISTINGS_PER_QUERY) - rank) * StepsOfCall
                     + (IF channel = "SEO" THEN StepsOfGeo ELSE 0)
    IN  IF pc = "start" THEN 2 + Len(prompts) * StepsOfPrompt
        ELSE IF pc = "seo_resolve" THEN later + StepsOfPrompt
        ELSE IF pc = "geo_resolve" THEN later + StepsOfGeo
        ELSE IF pc = "geo_raw" THEN later + StepsOfGeo - 1
        ELSE IF pc = "scrape" THEN later + after + (MAX_RETRIES - attempt + 1) + 1
        ELSE IF pc = "returned" THEN later + after + 1
        ELSE IF pc = "save" THEN 1
        ELSE 0

\* every Listing a resolver returned has its row in the log of the channel
AllRecorded ==
    \A k \in 1..Len(resolutions) :
        LET res == resolutions[k]
            log == IF res.channel = "SEO" THEN seo_logs ELSE geo_logs
        IN  \A r \in 1..Len(res.urls) :
                \E j \in 1..Len(log) :
                    /\ log[j].prompt = prompts[res.idx]
                    /\ log[j].rank = r
                    /\ log[j].url = res.urls[r]
                    /\ log[j].status \in {"success", "fail"}

\* C26: when every request returns or raises and every sleep ends, every
\* call of fetch_with_firecrawl returns, with status success or fail, and
\* run_crawling reaches its end with a row for every resolved Listing;
\* every step of the run lowers a bound on the steps that are left, which
\* counts MAX_RETRIES requests per call and not the failures met.
C26_Termination ==
    /\ <>(pc = "done" /\ AllRecorded)
    /\ (pc = "scrape") ~> (pc = "returned" /\ log_row.status \in {"success", "fail"})
    /\ [](StepsLeft >= 0)
    /\ [][StepsLeft' < StepsLeft]_vars

\* the end of a run over two prompts in which a call gave up after
\* MAX_RETRIES failed requests and another call succeeded
C26_Witness ==
    /\ pc = "done"
    /\ Len(prompts) = 2
    /\ \E k \in 1..Len(fetch_calls) :
          fetch_calls[k].status = "fail" /\ fetch_calls[k].requests = MAX_RETRIES
    /\ \E k \in 1..Len(fetch_calls) : fetch_calls[k].status = "success"
    /\ AllRecorded


(***************************************************************************)
(* Properties of two calls of fetch_with_firecrawl run side by side.       *)
(***************************************************************************)
PoolDone == \A w \in DOMAIN workers : workers[w].at = "returned"

\* the row call w returns when it runs alone and its requests have the
\* outcomes recorded for it
SeqRow(w) ==
    LET me == workers[w]
        n == Len(me.outcomes)
        paths == ArtifactPaths(me.channel, me.query_id, SlugId[me.url])
    IN  IF n > 0 /\ me.outcomes[n] = "success"
        THEN [channel |-> me.channel, query_id |-> me.query_id, rank |-> me.rank,
              url |-> me.url, url_slug |-> SlugId[me.url], status |-> "success",
              md_path |-> paths[1], html_path |-> paths[2], json_path |-> paths[3],
              attempt |-> n]
        ELSE [channel |-> me.channel, query_id |-> me.query_id, rank |-> me.rank,
              url |-> me.url, status |-> "fail"]

\* the directory after the calls of order ran one after the other, each
\* with the outcomes recorded for it
RECURSIVE SeqFiles(_)
SeqFiles(order) ==
    IF order = <<>> THEN EmptyMap
    ELSE LET w == order[Len(order)]
             before == SeqFiles(SubSeq(order, 1, Len(order) - 1))
             paths == ArtifactPaths(workers[w].channel, workers[w].query_id,
                                    SlugId[workers[w].url])
         IN  IF SeqRow(w).status = "success"
             THEN [p \in (DOMAIN before) \cup Range(paths) |->
                      IF p \in Range(paths) THEN workers[w].url ELSE before[p]]
             ELSE before

\* C23: once two calls of fetch_with_firecrawl on distinct URLs of one query
\* and channel have both returned, however their steps were interleaved,
\* each call's row and the three files at each returned path are those of
\* the sequential execution (the call of rank 1, then the call of rank 2)
C23_InterleavingAsSequential ==
    (pc = "pool" /\ PoolDone) =>
        \A w \in DOMAIN workers :
            /\ workers[w].row = SeqRow(w)
            /\ workers[w].row.status = "success" =>
                  \A p \in {workers[w].row.md_path, workers[w].row.html_path,
                            workers[w].row.json_path} :
                      /\ p \in DOMAIN files
                      /\ files[p] = SeqFiles(<<1, 2>>)[p]

\* the same, for URLs with distinct slugs
C23_DistinctSlugs ==
    (pc = "pool" /\ SlugId[workers[1].url] # SlugId[workers[2].url])
        => C23_InterleavingAsSequential

\* the files at a returned path are those of one of the two sequential orders
C23_SomeOrder ==
    (pc = "pool" /\ PoolDone) =>
        \E order \in {<<1, 2>>, <<2, 1>>} :
            \A w \in DOMAIN workers :
                workers[w].row.status = "success" =>
                    \A p \in {workers[w].row.md_path, workers[w].row.html_path,
                              workers[w].row.json_path} :
                        files[p] = SeqFiles(order)[p]

=============================================================================
